---------------------------- MODULE Spec2Model ----------------------------
(***************************************************************************)
(* Mini Notes (Obsidian plugin): the card collection pipeline of the grid  *)
(* view, the collection state store of the plugin, the drag-reorder        *)
(* controller and the debounced refresh scheduler.                         *)
(*                                                                         *)
(* Strings of the program are sequences of one-character strings, so that  *)
(* startsWith, extension and tag scanning are computed character by        *)
(* character as the code computes them.                                    *)
(***************************************************************************)
EXTENDS Integers, Sequences, FiniteSets, TLC

VARIABLES
    data,           \* VisualDashboardPlugin.data (the collection state)
    vault,          \* app.vault.getFiles(): the listing, in listing order
    filterPinned,   \* VisualDashboardView.filterPinned
    filterTag,      \* VisualDashboardView.filterTag
    shown,          \* the cards displayed: data-path attribute and the path of the TFile
    lastOp,         \* the handler that ran last, with what it returned
    now,            \* the clock, in ms
    timers,         \* per view, the browser timers pending
    refreshTimeoutId,   \* per view, the field of that name (0 for null)
    hist,           \* per view, the current burst of file events and its re-runs
    grid,           \* the children of miniNotesGrid, sections with their cards
    runs,           \* per slot, a call of renderCards and where it stands
    draggedCard,    \* the field of that name
    currentFiles,   \* the field of that name, as paths
    starts,         \* the calls of renderCards begun since the view opened
    arg,            \* input of the function under check
    res,            \* its result
    disk,           \* data.json, as the last write of saveData to end left it
    saving,         \* the calls of saveData in flight, oldest first
    saveCalls,      \* the calls of saveData begun
    closed          \* the views whose onClose has run

vars == <<data, vault, filterPinned, filterTag, shown, lastOp, now, timers,
          refreshTimeoutId, hist, grid, runs, draggedCard, currentFiles, starts, arg, res,
          disk, saving, saveCalls, closed>>

viewVars == <<filterPinned, filterTag>>
storeVars == <<shown, lastOp>>
pureVars == <<arg, res>>
timeVars == <<now, timers, refreshTimeoutId, hist, closed>>
gridVars == <<grid, runs, draggedCard, currentFiles, starts>>
diskVars == <<disk, saving, saveCalls>>

\* ------------------------------------------------------------------ bounds

\* Largest last-modified time a note of a drawn listing carries.
MaxMtime == 2
\* Longest noteOrder drawn as an input.
MaxOrderLen == 2
\* Largest maxNotes drawn as an input.
MaxNotesBound == 2
\* Longest excludedFolders drawn as an input.
MaxExcluded == 2
\* Longest displayed sequence drawn as the input of a drop.
MaxShown == 3

\* ------------------------------------------------------- program constants

FILE_FETCH_MULTIPLIER == 3
\* DEFAULT_DATA.maxNotes
DefaultMaxNotes == 150

\* ----------------------------------------------------------------- strings

\* No value yet (a variable that holds a value holds it as <<value>>).
None == <<>>
\* filterTag = null; the code tests filterTag for truthiness, which the
\* empty string fails too.
NoTag == <<>>

Range(s) == {s[i] : i \in DOMAIN s}

Min(a, b) == IF a < b THEN a ELSE b

\* Array.prototype.indexOf, 0-based, -1 when absent.
IndexOf(s, x) ==
    IF \E i \in DOMAIN s : s[i] = x
    THEN (CHOOSE i \in DOMAIN s : s[i] = x /\ \A j \in 1..(i - 1) : s[j] # x) - 1
    ELSE -1

\* Array.prototype.slice(0, n) for n >= 0.
Slice0(s, n) == SubSeq(s, 1, Min(n, Len(s)))

\* String.prototype.startsWith.
StartsWith(s, p) == Len(p) <= Len(s) /\ SubSeq(s, 1, Len(p)) = p

\* String.prototype.toLowerCase on the letters the model's strings use.
LowerChar(c) ==
    CASE c = "M" -> "m"
      [] c = "D" -> "d"
      [] OTHER -> c

ToLowerCase(s) == [i \in DOMAIN s |-> LowerChar(s[i])]

\* TFile.extension: the characters after the last dot of the file name.
RECURSIVE LastIndexOfChar(_, _, _)
LastIndexOfChar(s, c, i) ==
    IF i = 0 THEN 0
    ELSE IF s[i] = c THEN i
    ELSE LastIndexOfChar(s, c, i - 1)

Extension(path) ==
    LET slash == LastIndexOfChar(path, "/", Len(path))
        dot == LastIndexOfChar(path, ".", Len(path))
    IN  IF dot > slash + 1 THEN SubSeq(path, dot + 1, Len(path)) ELSE <<>>

\* String.prototype.trim on the blanks the model's strings use.
IsSpace(c) == c \in {" ", "\n", "\t"}

RECURSIVE TrimLeft(_)
TrimLeft(s) == IF s # <<>> /\ IsSpace(s[1]) THEN TrimLeft(Tail(s)) ELSE s

RECURSIVE TrimRight(_)
TrimRight(s) ==
    IF s # <<>> /\ IsSpace(s[Len(s)]) THEN TrimRight(SubSeq(s, 1, Len(s) - 1)) ELSE s

Trim(s) == TrimRight(TrimLeft(s))

\* Array.prototype.sort: stable; computed as a left-to-right insertion sort,
\* each element going behind the last element that does not compare greater.
\* cmp[a, b] is the comparator's result on the elements a and b.
StableSort(s, cmp) ==
    LET Insert(sorted, x) ==
            LET le == {j \in DOMAIN sorted : cmp[sorted[j], x] <= 0}
                p == IF le = {} THEN 0 ELSE CHOOSE j \in le : \A k \in le : k <= j
            IN  SubSeq(sorted, 1, p) \o <<x>> \o SubSeq(sorted, p + 1, Len(sorted))
        f[i \in 0..Len(s)] == IF i = 0 THEN <<>> ELSE Insert(f[i - 1], s[i])
    IN  f[Len(s)]

\* ------------------------------------------------------------------- notes

\* Paths of the notes and folders the model draws from.
P_a == <<"a", ".", "m", "d">>
P_b == <<"b", ".", "m", "d">>
P_c == <<"c", ".", "m", "d">>
P_d == <<"d", ".", "m", "d">>
P_g == <<"g", ".", "m", "d">>
\* "A/x.md", "A2/x.md", "A/B/y.md": notes in folder A, in a sibling whose
\* name begins with the characters of A, and in a subfolder of A.
P_Ax == <<"A", "/", "x", ".", "m", "d">>
P_A2x == <<"A", "2", "/", "x", ".", "m", "d">>
P_ABy == <<"A", "/", "B", "/", "y", ".", "m", "d">>
\* "e.txt", "f.MD": another extension, and an upper-case one.
P_e == <<"e", ".", "t", "x", "t">>
P_f == <<"f", ".", "M", "D">>
\* ".o/w.md": a file of the host's configuration folder.
P_cfg == <<".", "o", "/", "w", ".", "m", "d">>

F_A == <<"A">>
F_A2 == <<"A", "2">>
F_AB == <<"A", "/", "B">>
Root == <<"/">>

\* app.vault.configDir
ConfigDir == <<".", "o">>

Ext_md == <<"m", "d">>
Ext_txt == <<"t", "x", "t">>

\* Note texts: one with the inline tag #t, one without a tag, an empty one.
Tag_t == <<"#", "t">>
Text_tagged == <<"h", " ", "#", "t">>
Text_plain == <<"h">>
Text_empty == <<>>

File(p, m, c) == [path |-> p, mtime |-> m, content |-> c]

\* ------------------------------------------------------------ extractTags

\* TAG_SEGMENT_PATTERN's character class [0-9A-Za-z_-].
IsTagChar(c) ==
    c \in {"0", "1", "2", "a", "b", "c", "d", "h", "t", "x", "y", "A", "B", "M", "D", "_", "-"}

\* Index behind the longest run of tag characters that starts at i.
RECURSIVE SegEnd(_, _)
SegEnd(s, i) == IF i <= Len(s) /\ IsTagChar(s[i]) THEN SegEnd(s, i + 1) ELSE i

\* Index behind the "/segment" repeats that follow a segment ending before j.
RECURSIVE TagEnd(_, _)
TagEnd(s, j) ==
    IF j <= Len(s) /\ s[j] = "/" /\ SegEnd(s, j + 1) > j + 1
    THEN TagEnd(s, SegEnd(s, j + 1))
    ELSE j

\* The exec loop of extractTags over (?:^|\s)#(segment(/segment)*), from
\* position pos on, pushing each tag not yet included.
RECURSIVE InlineTags(_, _, _)
InlineTags(s, pos, tags) ==
    IF pos > Len(s) THEN tags
    ELSE LET hash == IF pos = 1 /\ s[1] = "#" THEN 1
                     ELSE IF IsSpace(s[pos]) /\ pos + 1 <= Len(s) /\ s[pos + 1] = "#"
                          THEN pos + 1
                          ELSE 0
         IN  IF hash > 0 /\ SegEnd(s, hash + 1) > hash + 1
             THEN LET e == TagEnd(s, SegEnd(s, hash + 1))
                      tag == SubSeq(s, hash, e - 1)
                  IN  InlineTags(s, e,
                          IF tag \in Range(tags) THEN tags ELSE Append(tags, tag))
             ELSE InlineTags(s, pos + 1, tags)

\* ------------------------------------------------- front-matter tags

\* The least and the greatest member of a set of indexes.
Least(indexes) == CHOOSE i \in indexes : \A k \in indexes : i <= k
Greatest(indexes) == CHOOSE i \in indexes : \A k \in indexes : k <= i

\* The first index from `from` on at which pattern occurs in s, 0 if none.
FirstAt(s, pattern, from) ==
    LET at == {i \in from..(Len(s) - Len(pattern) + 1) :
                   SubSeq(s, i, i + Len(pattern) - 1) = pattern}
    IN  IF at = {} THEN 0 ELSE Least(at)

RECURSIVE WsEnd(_, _)
\* Index behind the longest run of white space that starts at i (\s*).
WsEnd(s, i) == IF i <= Len(s) /\ IsSpace(s[i]) THEN WsEnd(s, i + 1) ELSE i

RECURSIVE LineEnd(_, _)
\* Index behind the longest run of non-newline characters from i (.* and $).
LineEnd(s, i) == IF i <= Len(s) /\ s[i] # "\n" THEN LineEnd(s, i + 1) ELSE i

IsQuote(c) == c \in {"\"", "'"}

\* t.replace(/^["']|["']$/g, ''): a quote at the start goes, and a quote at
\* the end of what is left.
StripQuotes(t) ==
    LET u == IF t # <<>> /\ IsQuote(t[1]) THEN Tail(t) ELSE t
    IN  IF u # <<>> /\ IsQuote(u[Len(u)]) THEN SubSeq(u, 1, Len(u) - 1) ELSE u

RECURSIVE SplitAt(_, _)
\* s.split(c)
SplitAt(s, c) ==
    LET at == {i \in DOMAIN s : s[i] = c}
    IN  IF at = {} THEN <<s>>
        ELSE LET i == CHOOSE j \in at : \A k \in at : j <= k
             IN  <<SubSeq(s, 1, i - 1)>> \o SplitAt(SubSeq(s, i + 1, Len(s)), c)

\* The positions at which a line of s begins with "tags:".
TagsLines(s) ==
    {i \in 1..(Len(s) - 4) : (i = 1 \/ s[i - 1] = "\n")
                                /\ SubSeq(s, i, i + 4) = <<"t", "a", "g", "s", ":">>}

\* The '#' tags of the non-empty members of items, in order.
HashTags(items) ==
    LET kept == SelectSeq(items, LAMBDA t : t # <<>>)
    IN  [i \in DOMAIN kept |-> <<"#">> \o kept[i]]

\* The tags of inner, the text between the brackets of an array.
ArrayTags(inner) ==
    IF inner = <<>> THEN <<>>
    ELSE HashTags([j \in DOMAIN SplitAt(inner, ",") |->
                      StripQuotes(Trim(SplitAt(inner, ",")[j]))])

\* The tags of tagsValue: of a bracketed array when it begins with '[' and
\* has a ']' behind it, the greedy match taking the last one, and else the
\* value as a single tag.
ValueTags(tagsValue) ==
    IF tagsValue = <<>> THEN <<>>
    ELSE IF tagsValue[1] = "["
    THEN IF {j \in 2..Len(tagsValue) : tagsValue[j] = "]"} = {} THEN <<>>
         ELSE ArrayTags(SubSeq(tagsValue, 2,
                  Greatest({j \in 2..Len(tagsValue) : tagsValue[j] = "]"}) - 1))
    ELSE <<<<"#">> \o StripQuotes(tagsValue)>>

\* The value that starts at from and ends with its line, trimmed.
TagsValue(frontmatter, from) ==
    Trim(SubSeq(frontmatter, from, LineEnd(frontmatter, from) - 1))

\* The tags of the match of /^tags:\s*(.*)$/m in the front matter: \s* runs
\* over line ends too, and the value is what follows it up to the end of
\* its line, read as a bracketed array or as a single tag.
TagsLineTags(frontmatter) ==
    IF TagsLines(frontmatter) = {} THEN <<>>
    ELSE ValueTags(TagsValue(frontmatter,
                             WsEnd(frontmatter, Least(TagsLines(frontmatter)) + 5)))

\* One \s+-\s+.+ from p on: the index behind it, 0 when there is no match.
\* When only white space follows the dash, .+ takes the last of it that is
\* no line end, and the line up to its end.
ListItemEnd(s, p) ==
    LET dash == WsEnd(s, p)
        v == WsEnd(s, dash + 1)
        given == {u \in (dash + 2)..(v - 1) : s[u] # "\n"}
    IN  IF dash = p \/ dash > Len(s) \/ s[dash] # "-" \/ v = dash + 1 THEN 0
        ELSE IF v <= Len(s) THEN LineEnd(s, v)
        ELSE IF given = {} THEN 0
        ELSE LineEnd(s, Greatest(given))

RECURSIVE ListItemsEnd(_, _)
\* The items from p on, the first of which ends at e (0: there is none).
ListItemsEndAfter(s, p, e) ==
    IF e = 0 THEN p
    ELSE ListItemsEnd(s, IF e <= Len(s) /\ s[e] = "\n" THEN e + 1 ELSE e)

\* (?:\s+-\s+.+\n?)* from p on: the index behind the last item matched.
ListItemsEnd(s, p) == ListItemsEndAfter(s, p, ListItemEnd(s, p))

\* The items that begin at p, as <<text>>, or None when there is none.
ListGroupFrom(s, p) ==
    IF ListItemEnd(s, p) = 0 THEN None ELSE <<SubSeq(s, p, ListItemsEnd(s, p) - 1)>>

\* Group 1 of the match of /^tags:\s*\n((?:\s+-\s+.+\n?)+)/m at the tags
\* line that begins at i, as <<text>>, or None: \s* gives back white space
\* up to the last line end that leaves white space before the first dash.
ListGroupAt(s, i) ==
    IF {n \in (i + 5)..(WsEnd(s, i + 5) - 2) : s[n] = "\n"} = {} THEN None
    ELSE ListGroupFrom(s, Greatest({n \in (i + 5)..(WsEnd(s, i + 5) - 2) : s[n] = "\n"}) + 1)

RECURSIVE ListItems(_, _)
\* group.match(/^\s+-\s+(.+)$/gm): the matches from position p on.
ListItems(s, p) ==
    IF p > Len(s) THEN <<>>
    ELSE LET e == IF p = 1 \/ s[p - 1] = "\n" THEN ListItemEnd(s, p) ELSE 0
         IN  IF e = 0 THEN ListItems(s, p + 1)
             ELSE <<SubSeq(s, p, e - 1)>> \o ListItems(s, e)

\* item.replace(/^\s+-\s+/, '')
WithoutDash(item) ==
    LET dash == WsEnd(item, 1)
        v == WsEnd(item, dash + 1)
    IN  IF dash > 1 /\ dash <= Len(item) /\ item[dash] = "-" /\ v > dash + 1
        THEN SubSeq(item, v, Len(item))
        ELSE item

RECURSIVE PushNew(_, _)
\* Each tag of more pushed unless tags includes it already.
PushNew(tags, more) ==
    IF more = <<>> THEN tags
    ELSE PushNew(IF more[1] \in Range(tags) THEN tags ELSE Append(tags, more[1]), Tail(more))

\* The tags of the items of a list, dash and quotes off.
ListTags(items) ==
    HashTags([j \in DOMAIN items |-> StripQuotes(Trim(WithoutDash(items[j])))])

\* The tags of the list under the first tags line that has one.
TagsListTags(frontmatter) ==
    LET having == {i \in TagsLines(frontmatter) : ListGroupAt(frontmatter, i) # None}
    IN  IF having = {} THEN <<>>
        ELSE ListTags(ListItems(ListGroupAt(frontmatter, Least(having))[1], 1))

FrontmatterOpen == <<"-", "-", "-", "\n">>
FrontmatterClose == <<"\n", "-", "-", "-">>

\* The text between the opening '---' line and the first line end followed
\* by '---', as <<text>>, or None when the content does not open so.
FrontmatterOf(content) ==
    LET e == FirstAt(content, FrontmatterClose, 5)
    IN  IF StartsWith(content, FrontmatterOpen) /\ e > 0
        THEN <<SubSeq(content, 5, e - 1)>>
        ELSE None

extractFrontmatterTags(content) ==
    LET m == FrontmatterOf(content)
    IN  IF m = None \/ m[1] = <<>> THEN <<>>
        ELSE PushNew(TagsLineTags(m[1]), TagsListTags(m[1]))

\* extractTags pushing the front-matter tags without the includes test.
extractTags_NoIncludes(content) ==
    InlineTags(content, 1, <<>>) \o extractFrontmatterTags(content)

\* extractTags: the inline tags in first-occurrence order, then each
\* front-matter tag not yet included.
extractTags(content) == PushNew(InlineTags(content, 1, <<>>), extractFrontmatterTags(content))

\* ------------------------------------------------- store: read operations

isPinned(d, filePath) == filePath \in Range(d.pinnedNotes)

getOrderIndex(d, filePath) == IndexOf(d.noteOrder, filePath)

\* --------------------------------------------- renderCards: the pipeline

AllowedExts(d) ==
    IF Len(d.allowedExtensions) > 0 THEN d.allowedExtensions ELSE <<Ext_md>>

ExtensionFilter(files, d) ==
    SelectSeq(files, LAMBDA f : ToLowerCase(Extension(f.path)) \in Range(AllowedExts(d)))

SourceFolderFilter(files, d) ==
    LET sourceFolder == Trim(d.sourceFolder)
    IN  IF sourceFolder # <<>> /\ sourceFolder # Root
        THEN SelectSeq(files, LAMBDA f : StartsWith(f.path, sourceFolder))
        ELSE files

ConfigDirFilter(files) ==
    SelectSeq(files, LAMBDA f : ~StartsWith(f.path, ConfigDir \o <<"/">>))

\* InExcludedFolder without the "/" behind the folder.
InExcludedFolder_NoSlash(path, excludedFolder) ==
    StartsWith(path, excludedFolder) \/ path = excludedFolder

\* The test of one note against one excluded folder.
InExcludedFolder(path, excludedFolder) ==
    StartsWith(path, excludedFolder \o <<"/">>) \/ path = excludedFolder

ExcludedFoldersFilter(files, d) ==
    IF Len(d.excludedFolders) > 0
    THEN SelectSeq(files, LAMBDA f :
             ~\E i \in DOMAIN d.excludedFolders :
                 InExcludedFolder(f.path, d.excludedFolders[i]))
    ELSE files

\* Candidate gathering: extension, source folder, configuration folder and
\* excluded folders, in the order of the code.
Candidates(listing, d) ==
    ExcludedFoldersFilter(ConfigDirFilter(SourceFolderFilter(ExtensionFilter(listing, d), d)), d)

ByMtimeDesc(a, b) == b.mtime - a.mtime

\* The recency sort and the pre-limit to maxNotes * FILE_FETCH_MULTIPLIER.
PreLimit(files, d) ==
    Slice0(StableSort(files, [a \in Range(files), b \in Range(files) |-> ByMtimeDesc(a, b)]),
           d.maxNotes * FILE_FETCH_MULTIPLIER)

\* PinnedFilter without the branch of "unpinned".
PinnedFilter_NoUnpinned(files, d, pinMode) ==
    IF pinMode = "pinned" THEN SelectSeq(files, LAMBDA f : isPinned(d, f.path))
    ELSE files

PinnedFilter(files, d, pinMode) ==
    IF pinMode = "pinned" THEN SelectSeq(files, LAMBDA f : isPinned(d, f.path))
    ELSE IF pinMode = "unpinned" THEN SelectSeq(files, LAMBDA f : ~isPinned(d, f.path))
    ELSE files

\* fileContents.get(path) || ''
ContentRead(fileContents, path) ==
    IF path \in DOMAIN fileContents THEN fileContents[path] ELSE <<>>

\* fileContents is the map the preload loop filled: path -> text read.
TagFilter(files, fileContents, activeTag) ==
    IF activeTag # NoTag
    THEN SelectSeq(files, LAMBDA f :
             activeTag \in Range(extractTags(ContentRead(fileContents, f.path))))
    ELSE files

\* HardLimit cutting one note too late.
HardLimit_OffByOne(files, d) == Slice0(files, d.maxNotes + 1)

HardLimit(files, d) == Slice0(files, d.maxNotes)

\* sortByOrder without the branches that put a positioned note first.
sortByOrder_NoPriority(d, a, b) ==
    LET aOrder == getOrderIndex(d, a.path)
        bOrder == getOrderIndex(d, b.path)
    IN  IF aOrder > -1 /\ bOrder > -1 THEN aOrder - bOrder
        ELSE b.mtime - a.mtime

sortByOrder(d, a, b) ==
    LET aOrder == getOrderIndex(d, a.path)
        bOrder == getOrderIndex(d, b.path)
    IN  IF aOrder > -1 /\ bOrder > -1 THEN aOrder - bOrder
        ELSE IF aOrder > -1 THEN -1
        ELSE IF bOrder > -1 THEN 1
        ELSE b.mtime - a.mtime

PinnedFiles(files, d) ==
    StableSort(SelectSeq(files, LAMBDA f : isPinned(d, f.path)),
               [a \in Range(files), b \in Range(files) |-> sortByOrder(d, a, b)])

UnpinnedFiles(files, d) ==
    StableSort(SelectSeq(files, LAMBDA f : ~isPinned(d, f.path)),
               [a \in Range(files), b \in Range(files) |-> sortByOrder(d, a, b)])

\* this.currentFiles = [...pinnedFiles, ...unpinnedFiles]
Flattened(files, d) == PinnedFiles(files, d) \o UnpinnedFiles(files, d)

\* Filtered with the limit behind the partition: the pinned and the
\* positioned notes first.
Filtered_PartitionFirst(files, fileContents, d, pinMode, activeTag) ==
    HardLimit(Flattened(TagFilter(PinnedFilter(files, d, pinMode), fileContents, activeTag), d), d)

\* The filters and the hard limit that follow the preload.
Filtered(files, fileContents, d, pinMode, activeTag) ==
    HardLimit(TagFilter(PinnedFilter(files, d, pinMode), fileContents, activeTag), d)


\* The text each path of a listing carries.
ContentsOf(listing) ==
    [p \in {listing[i].path : i \in DOMAIN listing} |->
        (CHOOSE f \in Range(listing) : f.path = p).content]

\* currentFiles of one run of renderCards with no other handler in between
\* and every read succeeding.
CurrentFilesOf(listing, d, pinMode, activeTag) ==
    Flattened(Filtered(PreLimit(Candidates(listing, d), d), ContentsOf(listing),
                       d, pinMode, activeTag), d)

\* One run of renderCards with no other handler in between and every read
\* succeeding: the groups, and the cards appended to the grid.
RenderCardsRun(listing, d, pinMode, activeTag) ==
    LET pre == PreLimit(Candidates(listing, d), d)
        files == Filtered(pre, ContentsOf(listing), d, pinMode, activeTag)
    IN  [candidates |-> Candidates(listing, d),
         batch |-> pre,
         pinnedFiles |-> PinnedFiles(files, d),
         unpinnedFiles |-> UnpinnedFiles(files, d),
         currentFiles |-> Flattened(files, d),
         cards |-> [i \in DOMAIN Flattened(files, d) |-> Flattened(files, d)[i].path]]

\* ------------------------------------------------ inputs of the pure runs

\* The sequences without repetition over S of length at most n.
RECURSIVE SeqsNoDup(_, _)
SeqsNoDup(S, n) ==
    IF n = 0 THEN {<<>>}
    ELSE LET shorter == SeqsNoDup(S, n - 1)
         IN  shorter \cup UNION {{Append(q, x) : x \in S \ Range(q)} : q \in shorter}

\* The members of S in the order of the sequence u.
InOrderOf(u, S) == SelectSeq(u, LAMBDA x : x \in S)

\* DEFAULT_DATA, with the list settings the views read.
DefaultData ==
    [pinnedNotes |-> <<>>,
     noteOrder |-> <<>>,
     noteColors |-> <<>>,
     sourceFolder |-> Root,
     maxNotes |-> DefaultMaxNotes,
     excludedFolders |-> <<>>,
     allowedExtensions |-> <<Ext_md>>]

\* Listings of the given paths, each note with some last-modified time.
Listings(paths, textOf) ==
    {[i \in DOMAIN paths |-> File(paths[i], m[i], textOf[paths[i]])] :
        m \in [DOMAIN paths -> 1..MaxMtime]}

OrderNotes == <<P_a, P_b, P_c>>
LimitNotes == <<P_a, P_b, P_c, P_d, P_g>>
FolderNotes == <<P_a, P_Ax, P_A2x, P_ABy, P_e, P_f, P_cfg>>

TextOf ==
    [p \in {P_a, P_b, P_c, P_d, P_g, P_Ax, P_A2x, P_ABy, P_e, P_f, P_cfg} |->
        IF p \in {P_a, P_c, P_Ax} THEN Text_tagged
        ELSE IF p \in {P_b, P_A2x} THEN Text_plain
        ELSE Text_empty]

\* Pinned sets, a manual order and note times over three notes.
InitOrdering ==
    /\ vault \in Listings(OrderNotes, TextOf)
    /\ \E pinned \in SUBSET Range(OrderNotes), order \in SeqsNoDup(Range(OrderNotes), MaxOrderLen),
          n \in (1..MaxNotesBound) \cup {DefaultMaxNotes} :
          data = [DefaultData EXCEPT !.pinnedNotes = InOrderOf(OrderNotes, pinned),
                                     !.noteOrder = order,
                                     !.maxNotes = n]
    /\ filterPinned = "all"
    /\ filterTag = NoTag

\* Small limits, the pin filter and the tag filter over five notes.
InitLimit ==
    /\ vault \in Listings(LimitNotes, TextOf)
    /\ \E pinned \in SUBSET Range(LimitNotes), n \in 1..MaxNotesBound :
          data = [DefaultData EXCEPT !.pinnedNotes = InOrderOf(LimitNotes, pinned),
                                     !.maxNotes = n]
    /\ filterPinned \in {"all", "pinned"}
    /\ filterTag \in {NoTag, Tag_t}

\* Folder settings over notes in folders: excluded folders (P_a stands for
\* an excluded folder whose path a note has taken since), the source
\* folder and the allowed extensions.
InitFolders ==
    /\ vault = [i \in DOMAIN FolderNotes |->
                    File(FolderNotes[i], 1 + (i % MaxMtime), TextOf[FolderNotes[i]])]
    /\ \E excluded \in SeqsNoDup({F_A, F_A2, F_AB, P_a}, MaxExcluded),
          source \in {Root, F_AB},
          exts \in {<<Ext_md>>, <<>>, <<Ext_md, Ext_txt>>, <<Ext_txt>>} :
          data = [DefaultData EXCEPT !.excludedFolders = excluded,
                                     !.sourceFolder = source,
                                     !.allowedExtensions = exts]
    /\ filterPinned = "all"
    /\ filterTag = NoTag

\* No handler has run yet.
NoOp == [op |-> "none", path |-> <<>>, to |-> <<>>, was |-> FALSE, ret |-> FALSE,
         saves |-> 0, again |-> FALSE, firstWas |-> FALSE, firstRet |-> FALSE,
         firstSaves |-> 0]

StoreIdle == shown = <<>> /\ lastOp = NoOp

\* Most calls of renderCards in progress at once, and most begun after the
\* first.
MaxRuns == 2
MaxStarts == 3

Slots == 1..MaxRuns

IdleRun == [pc |-> "idle", files |-> <<>>, k |-> 0, queue |-> <<>>, contents |-> <<>>]

\* The grid view is not open.
GridIdle ==
    /\ grid = <<>>
    /\ runs = [s \in Slots |-> IdleRun]
    /\ draggedCard = None
    /\ currentFiles = <<>>
    /\ starts = 0

\* The two views, each with its own refresh timer.
Views == {"grid", "sidebar"}

NoBurst == [n |-> 0, lastEvent |-> 0, runs |-> 0, early |-> FALSE,
            timed |-> 0, timedEarly |-> FALSE]

\* No file event has arrived and no timer is pending.
TimeIdle ==
    /\ now = 0
    /\ timers = [v \in Views |-> {}]
    /\ refreshTimeoutId = [v \in Views |-> 0]
    /\ hist = [v \in Views |-> NoBurst]
    /\ closed = {}
PureIdle == arg = None /\ res = None
\* No data.json yet and no write under way.
DiskIdle == disk = None /\ saving = <<>> /\ saveCalls = 0

InitPipeline ==
    /\ InitOrdering \/ InitLimit \/ InitFolders
    /\ StoreIdle
    /\ TimeIdle
    /\ DiskIdle
    /\ GridIdle
    /\ PureIdle

\* renderCards, run from its first line to its last with no other handler
\* in between.
RenderCardsAtomic ==
    /\ res = None
    /\ res' = <<RenderCardsRun(vault, data, filterPinned, filterTag)>>
    /\ UNCHANGED <<data, vault, viewVars, storeVars, timeVars, gridVars, arg, diskVars>>

NextPipeline == RenderCardsAtomic

SpecPipeline == InitPipeline /\ [][NextPipeline]_vars

\* ------------------------------------------------- claims on one pure run

Done == res # None
Out == res[1]

PathsOf(files) == [i \in DOMAIN files |-> files[i].path]

PathsRange(files) == {files[i].path : i \in DOMAIN files}

\* The last-modified time the listing gives for a path.
MtimeOf(p) == (CHOOSE f \in Range(vault) : f.path = p).mtime

\* C2: the flattened output of a run is the pinned group followed by the
\* unpinned group; within a group a note that has an index in noteOrder
\* precedes every note that has none, notes with an index are in ascending
\* index order and notes without one are in descending last-modified
\* order; pinned {a, b} with order [b, a] and unpinned c newest give
\* [b, a] then [c].
C2_GroupOrder ==
    Done =>
        LET L == Out.cards
            pinned(p) == p \in Range(data.pinnedNotes)
            pos(p) == IndexOf(data.noteOrder, p)
        IN  /\ L = PathsOf(Out.pinnedFiles) \o PathsOf(Out.unpinnedFiles)
            /\ \A i \in DOMAIN Out.pinnedFiles : pinned(Out.pinnedFiles[i].path)
            /\ \A i \in DOMAIN Out.unpinnedFiles : ~pinned(Out.unpinnedFiles[i].path)
            /\ \A i, j \in DOMAIN L :
                  (i < j /\ pinned(L[i]) = pinned(L[j])) =>
                      /\ pos(L[j]) >= 0 => pos(L[i]) >= 0
                      /\ (pos(L[i]) >= 0 /\ pos(L[j]) >= 0) => pos(L[i]) < pos(L[j])
                      /\ (pos(L[i]) < 0 /\ pos(L[j]) < 0) => MtimeOf(L[i]) >= MtimeOf(L[j])
            /\ ( /\ PathsOf(vault) = OrderNotes
                 /\ Range(data.pinnedNotes) = {P_a, P_b}
                 /\ data.noteOrder = <<P_b, P_a>>
                 /\ data.maxNotes >= 3 )
               => L = <<P_b, P_a, P_c>>

C2_Witness ==
    /\ Done
    /\ PathsOf(vault) = OrderNotes
    /\ Range(data.pinnedNotes) = {P_a, P_b}
    /\ data.noteOrder = <<P_b, P_a>>
    /\ MtimeOf(P_c) > MtimeOf(P_a) /\ MtimeOf(P_c) > MtimeOf(P_b)
    /\ PathsOf(Out.pinnedFiles) = <<P_b, P_a>>
    /\ PathsOf(Out.unpinnedFiles) = <<P_c>>

\* A note satisfies the active pin filter and the active tag filter.
Matches(f) ==
    /\ filterPinned = "pinned" => f.path \in Range(data.pinnedNotes)
    /\ filterPinned = "unpinned" => f.path \notin Range(data.pinnedNotes)
    /\ filterTag # NoTag => filterTag \in Range(extractTags(f.content))

MatchCount(files) == Cardinality({i \in DOMAIN files : Matches(files[i])})

\* C3 as stated: the number of cards a run renders is min(maxNotes, M), M
\* the number of candidate notes that satisfy the pin and tag filters.
C3_Original ==
    Done => Len(Out.cards) = Min(data.maxNotes, MatchCount(Out.candidates))

\* C3, amended: the number of cards a run renders is min(maxNotes, M), M
\* the number of notes that satisfy the pin and tag filters among the
\* maxNotes * 3 most recently modified candidates; with M >= maxNotes
\* exactly maxNotes cards render.
C3_CardCount ==
    Done =>
        LET batch == Out.batch
            cand == Out.candidates
        IN  /\ Len(batch) = Min(data.maxNotes * FILE_FETCH_MULTIPLIER, Len(cand))
            /\ Range(batch) \subseteq Range(cand)
            /\ \A f \in Range(cand) \ Range(batch), g \in Range(batch) : f.mtime <= g.mtime
            /\ Len(Out.cards) = Min(data.maxNotes, MatchCount(batch))
            /\ MatchCount(batch) >= data.maxNotes => Len(Out.cards) = data.maxNotes

\* Five notes match, maxNotes is 2, and two cards render.
C3_Witness ==
    /\ Done
    /\ data.maxNotes = 2
    /\ Len(Out.candidates) = 5
    /\ MatchCount(Out.batch) = 5
    /\ Len(Out.cards) = 2

\* The "/"-separated segments of a path.
RECURSIVE Segments(_)
Segments(s) ==
    IF \E i \in DOMAIN s : s[i] = "/"
    THEN LET k == CHOOSE i \in DOMAIN s : s[i] = "/" /\ \A j \in 1..(i - 1) : s[j] # "/"
         IN  <<SubSeq(s, 1, k - 1)>> \o Segments(SubSeq(s, k + 1, Len(s)))
    ELSE <<s>>

\* The note at path lies in the folder, at any depth.
LiesIn(path, folder) ==
    LET ps == Segments(path)
        fs == Segments(folder)
    IN  Len(fs) < Len(ps) /\ SubSeq(ps, 1, Len(fs)) = fs

\* The notes of the listing that pass the extension, source-folder and
\* configuration-folder steps.
BeforeExclusion == ConfigDirFilter(SourceFolderFilter(ExtensionFilter(vault, data), data))

\* C10: a run drops a note for an excluded folder F iff the note's path is
\* F or lies under F + "/": with "A" excluded "A/x.md" is absent, without
\* it is present, and "A2/x.md" stays when only "A" is excluded.
C10_ExcludedFolders ==
    Done =>
        LET excluded == Range(data.excludedFolders)
            onCards == Range(Out.cards)
            uncut == Len(Out.candidates) <= data.maxNotes
        IN  /\ \A f \in Range(BeforeExclusion) :
                  f \in Range(Out.candidates) <=>
                      ~\E F \in excluded : f.path = F \/ LiesIn(f.path, F)
            /\ uncut => onCards = {f.path : f \in Range(Out.candidates)}
            /\ F_A \in excluded => P_Ax \notin onCards
            /\ (P_Ax \in PathsRange(BeforeExclusion) /\ excluded \cap {F_A, P_Ax} = {} /\ uncut)
                  => P_Ax \in onCards
            /\ (P_A2x \in PathsRange(BeforeExclusion) /\ excluded = {F_A} /\ uncut)
                  => P_A2x \in onCards

C10_Witness ==
    /\ Done
    /\ data.excludedFolders = <<F_A>>
    /\ P_Ax \in PathsRange(BeforeExclusion)
    /\ P_Ax \notin Range(Out.cards)
    /\ P_A2x \in Range(Out.cards)

\* ------------------------------------------------------ handleDrop's order

\* Array.prototype.splice(i, 1) and splice(i, 0, x), i 0-based: a negative
\* index counts from the end, an index beyond the end is the end.
SpliceStart(s, i) ==
    IF i < 0 THEN (IF Len(s) + i < 0 THEN 0 ELSE Len(s) + i) ELSE Min(i, Len(s))

SpliceOut(s, i) ==
    SubSeq(s, 1, SpliceStart(s, i)) \o SubSeq(s, SpliceStart(s, i) + 2, Len(s))

SpliceIn(s, i, x) ==
    SubSeq(s, 1, SpliceStart(s, i)) \o <<x>> \o SubSeq(s, SpliceStart(s, i) + 1, Len(s))

\* DropOrder inserting before the place the target has once the dragged
\* path is taken out.
DropOrder_Shifted(currentOrder, draggedPath, targetPath) ==
    LET draggedIndex == IndexOf(currentOrder, draggedPath)
        without == SpliceOut(currentOrder, draggedIndex)
    IN  SpliceIn(without, IndexOf(without, targetPath), draggedPath)

\* The reorder of handleDrop: both indices are taken before the removal.
DropOrder(currentOrder, draggedPath, targetPath) ==
    LET draggedIndex == IndexOf(currentOrder, draggedPath)
        targetIndex == IndexOf(currentOrder, targetPath)
    IN  SpliceIn(SpliceOut(currentOrder, draggedIndex), targetIndex, draggedPath)

\* Whether handleDrop, past the check of the two card elements, reaches
\* updateOrder: both paths are non-empty and both are in currentOrder.
DropReorders(currentOrder, draggedPath, targetPath) ==
    /\ draggedPath # <<>> /\ targetPath # <<>>
    /\ IndexOf(currentOrder, draggedPath) # -1
    /\ IndexOf(currentOrder, targetPath) # -1

DropNotes == {P_a, P_b, P_c, P_d}

\* A displayed sequence and two cards, the dragged one and the target.
InitDrop ==
    /\ arg \in {<<[currentOrder |-> L, draggedPath |-> S, targetPath |-> T]>> :
                    L \in SeqsNoDup(DropNotes, MaxShown), S \in DropNotes, T \in DropNotes}
    /\ res = None
    /\ data = DefaultData
    /\ vault = <<>>
    /\ filterPinned = "all"
    /\ filterTag = NoTag
    /\ StoreIdle
    /\ TimeIdle
    /\ DiskIdle
    /\ GridIdle

\* handleDrop on two different card elements: the order handed to
\* updateOrder, or the return without a call.
HandleDropOrder ==
    /\ res = None
    /\ LET in == arg[1]
       IN  res' = IF DropReorders(in.currentOrder, in.draggedPath, in.targetPath)
                  THEN <<[handed |-> TRUE,
                          order |-> DropOrder(in.currentOrder, in.draggedPath, in.targetPath)]>>
                  ELSE <<[handed |-> FALSE, order |-> <<>>]>>
    /\ UNCHANGED <<data, vault, viewVars, storeVars, timeVars, gridVars, arg, diskVars>>

NextDrop == HandleDropOrder

SpecDrop == InitDrop /\ [][NextDrop]_vars

\* s without its occurrences of x.
Without(s, x) == SelectSeq(s, LAMBDA y : y # x)

\* C8: on a drop of S onto a different T, both in the displayed sequence
\* L, the sequence handed to updateOrder is a permutation of L with S at
\* the index T had in L and the other paths in their relative order.
C8_DropPermutation ==
    (Done /\ arg # None) =>
        LET L == arg[1].currentOrder
            S == arg[1].draggedPath
            T == arg[1].targetPath
            N == Out.order
        IN  (S # T /\ S \in Range(L) /\ T \in Range(L)) =>
                /\ Out.handed
                /\ Len(N) = Len(L)
                /\ Range(N) = Range(L)
                /\ \A i, j \in DOMAIN N : i # j => N[i] # N[j]
                /\ N[IndexOf(L, T) + 1] = S
                /\ Without(N, S) = Without(L, S)

\* S dragged down past another card onto T, and S dragged up.
C8_Witness ==
    /\ Done /\ arg # None
    /\ Out.handed
    /\ arg[1].currentOrder = <<P_a, P_b, P_c>>
    /\ arg[1].draggedPath = P_a
    /\ arg[1].targetPath = P_c
    /\ Out.order = <<P_b, P_c, P_a>>

\* ------------------------------------------------- the collection state store

\* Array.prototype.splice(i, 1) on the first occurrence of x, if any.
RemoveFirst(s, x) == IF IndexOf(s, x) > -1 THEN SpliceOut(s, IndexOf(s, x)) ELSE s

\* s[i] = y on the first occurrence of x, if any.
ReplaceFirst(s, x, y) ==
    IF IndexOf(s, x) > -1 THEN [s EXCEPT ![IndexOf(s, x) + 1] = y] ELSE s

\* noteColors[path] is set (and, as every stored color, a non-empty string).
HasColor(d, path) == path \in DOMAIN d.noteColors

SetColor(colors, path, color) ==
    [q \in DOMAIN colors \cup {path} |-> IF q = path THEN color ELSE colors[q]]

DeleteColor(colors, path) == [q \in DOMAIN colors \ {path} |-> colors[q]]

\* togglePin: the mutation of data, and the value returned.
TogglePinData(d, filePath) ==
    IF IndexOf(d.pinnedNotes, filePath) > -1
    THEN [d EXCEPT !.pinnedNotes = RemoveFirst(@, filePath)]
    ELSE [d EXCEPT !.pinnedNotes = Append(@, filePath)]

TogglePinReturn(d, filePath) == ~(IndexOf(d.pinnedNotes, filePath) > -1)

\* updateOrder
\* updateOrder keeping the positions of the paths the new order lacks.
UpdateOrderData_Merged(d, newOrder) ==
    [d EXCEPT !.noteOrder = newOrder \o SelectSeq(@, LAMBDA p : p \notin Range(newOrder))]

UpdateOrderData(d, newOrder) == [d EXCEPT !.noteOrder = newOrder]

\* handleFileRename: the three updates, and dataChanged.
RenameData(d, oldPath, newPath) ==
    [d EXCEPT
        !.noteColors = IF HasColor(d, oldPath)
                       THEN DeleteColor(SetColor(@, newPath, @[oldPath]), oldPath)
                       ELSE @,
        !.pinnedNotes = ReplaceFirst(@, oldPath, newPath),
        !.noteOrder = ReplaceFirst(@, oldPath, newPath)]

DataChanged(d, path) ==
    \/ HasColor(d, path)
    \/ IndexOf(d.pinnedNotes, path) > -1
    \/ IndexOf(d.noteOrder, path) > -1

\* handleFileDelete: the three removals (dataChanged is DataChanged).
DeleteData(d, filePath) ==
    [d EXCEPT
        !.noteColors = DeleteColor(@, filePath),
        !.pinnedNotes = RemoveFirst(@, filePath),
        !.noteOrder = RemoveFirst(@, filePath)]

\* ---------------------------------------------- the store and its callers

\* Notes that come and go, and a note that stays.
ComingNotes == {P_a, P_b}
StoreNotes == <<P_a, P_b, P_c>>

\* One of the palette's colors.
Colors == {"var(--pastel-pink)"}

NotePaths == PathsRange(vault)

\* The cards of a run of renderCards over the notes, in display order.
Rendered(listing, d) ==
    LET files == CurrentFilesOf(listing, d, filterPinned, filterTag)
    IN  [i \in DOMAIN files |-> [attr |-> files[i].path, path |-> files[i].path]]

\* The paths the TFiles of the displayed cards carry: currentFiles.
ShownPaths == [i \in DOMAIN shown |-> shown[i].path]

ListingOf(paths) == [i \in DOMAIN InOrderOf(StoreNotes, paths) |->
                        File(InOrderOf(StoreNotes, paths)[i], 1, Text_empty)]

\* The record of a handler's run; a togglePin that follows a togglePin of the
\* same path also keeps what the first one found and returned.
Op(name, path, to, was, ret, saves) ==
    LET again == name = "togglePin" /\ lastOp.op = "togglePin" /\ lastOp.path = path
    IN  [op |-> name, path |-> path, to |-> to, was |-> was, ret |-> ret,
         saves |-> saves, again |-> again,
         firstWas |-> again /\ lastOp.was, firstRet |-> again /\ lastOp.ret,
         firstSaves |-> IF again THEN lastOp.saves ELSE 0]

\* The default state on first load; the vault holds some of the notes and
\* the grid has rendered them.
InitStore ==
    /\ data = DefaultData
    /\ \E paths \in SUBSET ComingNotes : vault = ListingOf(paths \cup {P_c})
    /\ filterPinned = "all"
    /\ filterTag = NoTag
    /\ shown = Rendered(vault, data)
    /\ lastOp = NoOp
    /\ TimeIdle
    /\ DiskIdle
    /\ GridIdle
    /\ PureIdle

\* A click on the pin button of a displayed card: togglePin, then the
\* re-render.
PinButtonClick(p) ==
    /\ p \in Range(ShownPaths)
    /\ data' = TogglePinData(data, p)
    /\ lastOp' = Op("togglePin", p, <<>>, isPinned(data, p), TogglePinReturn(data, p), 1)
    /\ shown' = Rendered(vault, data')
    /\ UNCHANGED <<vault, viewVars, timeVars, pureVars, gridVars, diskVars>>

\* A click on a color circle of a displayed card; the last circle clears.
ColorCircleClick(p, color) ==
    /\ p \in Range(ShownPaths)
    /\ data' = [data EXCEPT !.noteColors =
                    IF color = "clear" THEN DeleteColor(@, p) ELSE SetColor(@, p, color)]
    /\ lastOp' = Op("color", p, <<>>, FALSE, FALSE, 1)
    /\ UNCHANGED <<vault, shown, viewVars, timeVars, pureVars, gridVars, diskVars>>

\* A drop of one displayed card onto another: handleDrop with the cards'
\* data-path attributes and the paths of currentFiles, then updateOrder and
\* the re-render.
DropOnCard(dragged, target) ==
    /\ dragged # target
    /\ DropReorders(ShownPaths, shown[dragged].attr, shown[target].attr)
    /\ data' = UpdateOrderData(data,
                    DropOrder(ShownPaths, shown[dragged].attr, shown[target].attr))
    /\ lastOp' = Op("updateOrder", shown[dragged].attr, shown[target].attr, FALSE, FALSE, 1)
    /\ shown' = Rendered(vault, data')
    /\ UNCHANGED <<vault, viewVars, timeVars, pureVars, gridVars, diskVars>>

\* The vault creates a note; the plugin has no handler for it.
FileCreated(p) ==
    /\ p \notin NotePaths
    /\ vault' = ListingOf(NotePaths \cup {p})
    /\ lastOp' = Op("create", p, <<>>, FALSE, FALSE, 0)
    /\ UNCHANGED <<data, shown, viewVars, timeVars, pureVars, gridVars, diskVars>>

\* The vault deletes a note: handleFileDelete.  The card stays until the
\* debounced refresh runs.
FileDeleted(p) ==
    /\ p \in NotePaths
    /\ vault' = ListingOf(NotePaths \ {p})
    /\ data' = DeleteData(data, p)
    /\ lastOp' = Op("delete", p, <<>>, FALSE, FALSE, IF DataChanged(data, p) THEN 1 ELSE 0)
    /\ UNCHANGED <<shown, viewVars, timeVars, pureVars, gridVars, diskVars>>

\* The vault renames a note: handleFileRename, which raises
\* settings-changed (a re-render) when it changed data.  The TFile of a
\* displayed card carries the new path.
FileRenamed(oldPath, newPath) ==
    /\ oldPath \in NotePaths
    /\ newPath \notin NotePaths
    /\ vault' = ListingOf((NotePaths \ {oldPath}) \cup {newPath})
    /\ data' = RenameData(data, oldPath, newPath)
    /\ lastOp' = Op("rename", oldPath, newPath, FALSE, FALSE,
                    IF DataChanged(data, oldPath) THEN 1 ELSE 0)
    /\ shown' = IF DataChanged(data, oldPath) THEN Rendered(vault', data')
                ELSE [i \in DOMAIN shown |->
                         IF shown[i].path = oldPath THEN [shown[i] EXCEPT !.path = newPath]
                         ELSE shown[i]]
    /\ UNCHANGED <<viewVars, timeVars, pureVars, gridVars, diskVars>>

\* The refresh timer of the grid fires: the cards are those of the notes.
RefreshTimerFires ==
    /\ shown # Rendered(vault, data)
    /\ shown' = Rendered(vault, data)
    /\ lastOp' = Op("refresh", <<>>, <<>>, FALSE, FALSE, 0)
    /\ UNCHANGED <<data, vault, viewVars, timeVars, pureVars, gridVars, diskVars>>

NextStore ==
    \/ \E p \in Range(StoreNotes) : PinButtonClick(p)
    \/ \E p \in ComingNotes, color \in Colors \cup {"clear"} : ColorCircleClick(p, color)
    \/ \E dragged, target \in DOMAIN shown : DropOnCard(dragged, target)
    \/ \E p \in ComingNotes : FileCreated(p)
    \/ \E p \in ComingNotes : FileDeleted(p)
    \/ \E oldPath, newPath \in ComingNotes : FileRenamed(oldPath, newPath)
    \/ RefreshTimerFires

SpecStore == InitStore /\ [][NextStore]_vars

\* ------------------------------------------------------ claims on the store

\* The entries of a list that are neither of two paths stay where they are.
OthersKept(before, after, p, q) ==
    /\ Len(after) = Len(before)
    /\ \A i \in DOMAIN before : before[i] \notin {p, q} => after[i] = before[i]

\* The color entries of the paths outside a set are the same.
ColorsKept(before, after, paths) ==
    \A q \in (DOMAIN before \cup DOMAIN after) \ paths :
        q \in DOMAIN before /\ q \in DOMAIN after /\ after[q] = before[q]

\* Every path the data holds is the path of a note, and none is pinned twice.
NoStalePath(d) ==
    /\ DOMAIN d.noteColors \subseteq NotePaths
    /\ Range(d.pinnedNotes) \subseteq NotePaths
    /\ Range(d.noteOrder) \subseteq NotePaths
    /\ \A i, j \in DOMAIN d.pinnedNotes : d.pinnedNotes[i] = d.pinnedNotes[j] => i = j
    /\ \A i, j \in DOMAIN d.noteOrder : d.noteOrder[i] = d.noteOrder[j] => i = j

RenamePost(d, e, old, new) ==
    /\ HasColor(d, old) => HasColor(e, new) /\ e.noteColors[new] = d.noteColors[old]
    /\ isPinned(e, new) <=> isPinned(d, old)
    /\ isPinned(d, old) => IndexOf(e.pinnedNotes, new) = IndexOf(d.pinnedNotes, old)
    /\ getOrderIndex(d, old) > -1 => getOrderIndex(e, new) = getOrderIndex(d, old)
    /\ ~HasColor(e, old) /\ ~isPinned(e, old) /\ getOrderIndex(e, old) = -1
    /\ ColorsKept(d.noteColors, e.noteColors, {old, new})
    /\ OthersKept(d.pinnedNotes, e.pinnedNotes, old, new)
    /\ OthersKept(d.noteOrder, e.noteOrder, old, new)

\* C5: after handleFileRename(old -> new) a color of old is stored under new
\* with the same value, new is pinned iff old was, new has the index old had
\* in noteOrder and in pinnedNotes, old is in none of the three structures,
\* and the entries of all other paths are unchanged.
C5_Rename ==
    [][lastOp'.op = "rename" => RenamePost(data, data', lastOp'.path, lastOp'.to)]_vars

\* The same, for renames that start where the data holds no stale path.
C5_RenameOfCleanData ==
    [][lastOp'.op = "rename" /\ NoStalePath(data)
           => RenamePost(data, data', lastOp'.path, lastOp'.to)]_vars

DeletePost(d, e, p, saves) ==
    /\ ~HasColor(e, p) /\ ~isPinned(e, p) /\ getOrderIndex(e, p) = -1
    /\ ColorsKept(d.noteColors, e.noteColors, {p})
    /\ Without(e.pinnedNotes, p) = Without(d.pinnedNotes, p)
    /\ Without(e.noteOrder, p) = Without(d.noteOrder, p)
    /\ ~DataChanged(d, p) => e = d /\ saves = 0

\* C6: after handleFileDelete(p) p is absent from colors, pinnedNotes and
\* noteOrder, the entries of every other path and their relative order are
\* unchanged, and when p was in none of the three nothing changes and no
\* save is issued.
C6_Delete ==
    [][lastOp'.op = "delete" => DeletePost(data, data', lastOp'.path, lastOp'.saves)]_vars

\* The same, for deletes that start where the data holds no stale path.
C6_DeleteOfCleanData ==
    [][lastOp'.op = "delete" /\ NoStalePath(data)
           => DeletePost(data, data', lastOp'.path, lastOp'.saves)]_vars

\* After the second of two togglePin(p) in succession: what isPinned(p) was
\* after the first call is what the second call found.
TwiceToggled == lastOp.op = "togglePin" /\ lastOp.again

\* C7: togglePin(p) twice in succession leaves isPinned(p) at its initial
\* value, each call returns the value isPinned(p) has after it, and exactly
\* two saves are issued.
C7_ToggleTwice ==
    TwiceToggled =>
        /\ isPinned(data, lastOp.path) = lastOp.firstWas
        /\ lastOp.firstRet = lastOp.was
        /\ lastOp.ret = isPinned(data, lastOp.path)
        /\ lastOp.firstSaves + lastOp.saves = 2

\* The same, for a path that pinnedNotes holds at most once (a path held
\* twice is still found by the second call after the first removed it).
C7_ToggleTwiceOfSingle ==
    (TwiceToggled /\ ~(lastOp.firstWas /\ lastOp.was)) => C7_ToggleTwice

\* ------------------------------------------------- the debounced refresh

DEBOUNCE_REFRESH_MS == 1000

\* The clock advances in steps of half the quiet interval, MaxTicks times.
TickMs == DEBOUNCE_REFRESH_MS \div 2
MaxTicks == 5

\* Most file events counted in one burst.
MaxBurst == 3

\* The vault events a view schedules a refresh on.
Listens(view, kind) ==
    \/ kind \in {"modify", "create", "delete"}
    \/ view = "sidebar" /\ kind = "rename"

\* window.clearTimeout left out.
ClearTimeout_Not(pending, id) == pending

\* window.clearTimeout
ClearTimeout(pending, id) == {t \in pending : t.id # id}

\* The id window.setTimeout returns: one no pending timer has.
SetTimeoutId(pending) ==
    CHOOSE i \in 1..(Cardinality(pending) + 1) : \A t \in pending : t.id # i

\* debouncedRefresh / scheduleRefresh: the timers left by the cancellation,
\* and those pending once the new one is set.
Kept(pending, id) == IF id # 0 THEN ClearTimeout(pending, id) ELSE pending

Scheduled(pending, id) ==
    Kept(pending, id) \cup {[id |-> SetTimeoutId(Kept(pending, id)),
                             due |-> now + DEBOUNCE_REFRESH_MS]}

\* The burst after one more file event: an event less than the quiet
\* interval after the previous one continues the burst, any other starts one.
Arrived(h) ==
    IF h.n > 0 /\ now - h.lastEvent < DEBOUNCE_REFRESH_MS
    THEN [h EXCEPT !.n = @ + 1, !.lastEvent = now]
    ELSE [NoBurst EXCEPT !.n = 1, !.lastEvent = now]

\* The burst after a pipeline re-run, issued by the timer or directly: the
\* re-runs are counted up to two, and one that came before the quiet
\* interval had passed is noted.
ReRan(h, byTimer) ==
    LET soon == now < h.lastEvent + DEBOUNCE_REFRESH_MS
    IN  IF h.n = 0 THEN h
        ELSE [h EXCEPT !.runs = Min(@ + 1, 2),
                       !.early = @ \/ soon,
                       !.timed = IF byTimer THEN Min(@ + 1, 2) ELSE @,
                       !.timedEarly = @ \/ (byTimer /\ soon)]

\* The listeners of a view are registered with registerEvent: they are
\* detached when the view is closed.
Hears(view, kind) == Listens(view, kind) /\ view \notin closed

\* A vault event reaches the listeners of the views: those that listen to
\* it schedule a refresh; direct says that the plugin's handler raised
\* settings-changed, on which a view re-runs its pipeline at once.
Notify(kind, direct) ==
    /\ \A v \in Views : Hears(v, kind) => hist[v].n < MaxBurst
    /\ timers' = [v \in Views |->
                    IF Hears(v, kind) THEN Scheduled(timers[v], refreshTimeoutId[v])
                    ELSE timers[v]]
    /\ refreshTimeoutId' = [v \in Views |->
                    IF Hears(v, kind)
                    THEN SetTimeoutId(Kept(timers[v], refreshTimeoutId[v]))
                    ELSE refreshTimeoutId[v]]
    /\ hist' = [v \in Views |->
                    IF Hears(v, kind)
                    THEN IF direct THEN ReRan(Arrived(hist[v]), FALSE) ELSE Arrived(hist[v])
                    ELSE hist[v]]

InitDebounce ==
    /\ \E pinned \in {<<>>, <<P_a>>} : data = [DefaultData EXCEPT !.pinnedNotes = pinned]
    /\ vault = ListingOf({P_a, P_c})
    /\ filterPinned = "all"
    /\ filterTag = NoTag
    /\ StoreIdle
    /\ TimeIdle
    /\ DiskIdle
    /\ GridIdle
    /\ PureIdle

\* vault 'modify'
VaultModify(p) ==
    /\ p \in NotePaths
    /\ Notify("modify", FALSE)
    /\ UNCHANGED <<data, vault, now, closed, viewVars, storeVars, pureVars, gridVars, diskVars>>

\* vault 'create'
VaultCreate(p) ==
    /\ p \notin NotePaths
    /\ vault' = ListingOf(NotePaths \cup {p})
    /\ Notify("create", FALSE)
    /\ UNCHANGED <<data, now, closed, viewVars, storeVars, pureVars, gridVars, diskVars>>

\* vault 'delete': handleFileDelete, which raises no settings-changed.
VaultDelete(p) ==
    /\ p \in NotePaths
    /\ vault' = ListingOf(NotePaths \ {p})
    /\ data' = DeleteData(data, p)
    /\ Notify("delete", FALSE)
    /\ UNCHANGED <<now, closed, viewVars, storeVars, pureVars, gridVars, diskVars>>

\* vault 'rename': handleFileRename, which raises settings-changed when it
\* changed data.
VaultRename(oldPath, newPath) ==
    /\ oldPath \in NotePaths
    /\ newPath \notin NotePaths
    /\ vault' = ListingOf((NotePaths \ {oldPath}) \cup {newPath})
    /\ data' = RenameData(data, oldPath, newPath)
    /\ Notify("rename", DataChanged(data, oldPath))
    /\ UNCHANGED <<now, closed, viewVars, storeVars, pureVars, gridVars, diskVars>>

\* The callback of a timer that is due: the pipeline re-run, and the field
\* set to null.  A callback may run late.
TimerFires(v) ==
    /\ \E t \in timers[v] :
          /\ t.due <= now
          /\ timers' = [timers EXCEPT ![v] = @ \ {t}]
    /\ refreshTimeoutId' = [refreshTimeoutId EXCEPT ![v] = 0]
    /\ hist' = [hist EXCEPT ![v] = ReRan(@, TRUE)]
    /\ UNCHANGED <<data, vault, now, closed, viewVars, storeVars, pureVars, gridVars, diskVars>>

\* Time passes.
Tick ==
    /\ now < MaxTicks * TickMs
    /\ now' = now + TickMs
    /\ UNCHANGED <<data, vault, timers, refreshTimeoutId, hist, closed, viewVars, storeVars, pureVars, gridVars,
                   diskVars>>

NextDebounce ==
    \/ \E p \in {P_a, P_b, P_c} : VaultModify(p)
    \/ VaultCreate(P_c)
    \/ VaultDelete(P_c)
    \/ \E oldPath, newPath \in ComingNotes : VaultRename(oldPath, newPath)
    \/ \E v \in Views : TimerFires(v)
    \/ Tick

SpecDebounce == InitDebounce /\ [][NextDebounce]_vars

\* At most one refresh timer is pending, the one the field names.
OneTimer(v) ==
    /\ Cardinality(timers[v]) <= 1
    /\ \A t \in timers[v] : refreshTimeoutId[v] = t.id
    /\ timers[v] = {} => refreshTimeoutId[v] = 0

\* A burst's re-runs, counted by reruns: none yet and the timer pending, or
\* one, no earlier than the quiet interval after the last event, and no
\* timer left.
OneReRun(v, reruns, early) ==
    hist[v].n >= 1 =>
        \/ reruns = 0 /\ timers[v] # {}
        \/ reruns = 1 /\ ~early /\ timers[v] = {}

GridNotes == <<File(P_a, 2, Text_empty), File(P_b, 1, Text_empty)>>

Section(slot, sec) == [slot |-> slot, sec |-> sec, kind |-> "section", cards |-> <<>>]
Separator(slot) == [slot |-> slot, sec |-> 0, kind |-> "separator", cards |-> <<>>]
EmptyState(slot) == [slot |-> slot, sec |-> 0, kind |-> "empty", cards |-> <<>>]

\* The cards in the grid, in document order.
AllCards(children) ==
    LET f[i \in 0..Len(children)] == IF i = 0 THEN <<>> ELSE f[i - 1] \o children[i].cards
    IN  f[Len(children)]

\* renderCards from the end of the preload loop to the first createCard:
\* filters, limit and partition with the data as it is then, currentFiles,
\* and the empty state or the first section.
AfterPreload(w, slot, d, pinMode) ==
    LET files == Filtered(w.run.files, w.run.contents, d, pinMode, filterTag)
        pinnedFiles == PinnedFiles(files, d)
        unpinnedFiles == UnpinnedFiles(files, d)
        needsSections == Len(pinnedFiles) > 0 /\ Len(unpinnedFiles) > 0
        queue == [i \in DOMAIN pinnedFiles |-> [path |-> pinnedFiles[i].path, sec |-> 1]]
                 \o [i \in DOMAIN unpinnedFiles |->
                        [path |-> unpinnedFiles[i].path,
                         sec |-> IF needsSections THEN 2 ELSE 1]]
    IN  IF Len(files) = 0
        THEN [grid |-> Append(w.grid, EmptyState(slot)), run |-> IdleRun,
              currentFiles |-> <<>>]
        ELSE [grid |-> Append(w.grid, Section(slot, 1)),
              run |-> [pc |-> "creating", files |-> <<>>, k |-> 0, queue |-> queue,
                       contents |-> <<>>],
              currentFiles |-> PathsOf(pinnedFiles \o unpinnedFiles)]

\* renderCards up to its first await: the grid emptied, the candidates
\* gathered, sorted and pre-limited.
Begin(slot, d, pinMode, shownFiles) ==
    LET files == PreLimit(Candidates(vault, d), d)
        w == [grid |-> <<>>,
              run |-> [pc |-> "reading", files |-> files, k |-> 0, queue |-> <<>>,
                       contents |-> <<>>],
              currentFiles |-> shownFiles]
    IN  IF Len(files) = 0 THEN AfterPreload(w, slot, d, pinMode) ELSE w

\* fileContents.set(path, content)
WithContent(fileContents, path, content) ==
    [q \in DOMAIN fileContents \cup {path} |->
        IF q = path THEN content ELSE fileContents[q]]

\* The run with the text of its next file in fileContents, under the path
\* the file has then.
ReadDone(w) ==
    [w EXCEPT !.run.k = @ + 1,
              !.run.contents = WithContent(@, w.run.files[w.run.k + 1].path,
                                           w.run.files[w.run.k + 1].content)]

\* One cachedRead of the preload loop returns.
AfterRead(w, slot, d, pinMode) ==
    IF w.run.k + 1 = Len(w.run.files)
    THEN AfterPreload(ReadDone(w), slot, d, pinMode)
    ELSE ReadDone(w)

\* A card is appended to the section it was created for, wherever that is.
WithCard(children, slot, sec, card) ==
    [i \in DOMAIN children |->
        IF children[i].slot = slot /\ children[i].sec = sec /\ children[i].kind = "section"
        THEN [children[i] EXCEPT !.cards = Append(@, card)]
        ELSE children[i]]

\* One createCard returns card: it goes to its section, and after the last
\* pinned card the separator and the second section are created.
AfterCardOf(w, slot, card) ==
    LET head == w.run.queue[1]
        rest == Tail(w.run.queue)
        appended == WithCard(w.grid, slot, head.sec, card)
    IN  IF rest = <<>>
        THEN [w EXCEPT !.grid = appended, !.run = IdleRun]
        ELSE [w EXCEPT !.grid = IF rest[1].sec # head.sec
                                THEN appended \o <<Separator(slot), Section(slot, rest[1].sec)>>
                                ELSE appended,
                       !.run.queue = rest,
                       !.run.k = @ + 1]

\* The card carries the element it is and the path of its note.
AfterCard(w, slot) ==
    AfterCardOf(w, slot, [el |-> <<slot, w.run.k>>, path |-> w.run.queue[1].path])

\* A run of renderCards carried to its end with nothing in between.
RECURSIVE RunToEnd(_, _, _, _)
RunToEnd(w, slot, d, pinMode) ==
    IF w.run.pc = "reading" THEN RunToEnd(AfterRead(w, slot, d, pinMode), slot, d, pinMode)
    ELSE IF w.run.pc = "creating" THEN RunToEnd(AfterCard(w, slot), slot, d, pinMode)
    ELSE w

\* The view as a run in slot sees it.
World(slot) == [grid |-> grid, run |-> runs[slot], currentFiles |-> currentFiles]

\* The view takes what a step of the run in slot left.
Becomes(slot, w) ==
    /\ grid' = w.grid
    /\ runs' = [runs EXCEPT ![slot] = w.run]
    /\ currentFiles' = w.currentFiles

SomeSlotIdle == \E s \in Slots : runs[s].pc = "idle"

FreeSlot == CHOOSE s \in Slots : runs[s].pc = "idle" /\ \A t \in 1..(s - 1) : runs[t].pc # "idle"

\* A call of renderCards begins, with the data and the pin filter as they
\* are then; every card there was is out of the grid, the dragged one too.
StartsRun(d, pinMode) ==
    /\ SomeSlotIdle
    /\ starts < MaxStarts
    /\ starts' = starts + 1
    /\ Becomes(FreeSlot, Begin(FreeSlot, d, pinMode, currentFiles))
    /\ draggedCard' = IF draggedCard = None THEN None
                      ELSE <<[draggedCard[1] EXCEPT !.detached = TRUE]>>

\* The view has been opened, its first render is complete.
InitGrid ==
    /\ \E maxNotes \in 1..Len(GridNotes) : data = [DefaultData EXCEPT !.maxNotes = maxNotes]
    /\ vault = GridNotes
    /\ filterPinned = "all"
    /\ filterTag = NoTag
    /\ LET w == RunToEnd(Begin(1, data, "all", <<>>), 1, data, "all")
       IN  grid = w.grid /\ currentFiles = w.currentFiles
    /\ runs = [s \in Slots |-> IdleRun]
    /\ draggedCard = None
    /\ starts = 0
    /\ StoreIdle
    /\ TimeIdle
    /\ DiskIdle
    /\ PureIdle

\* The refresh timer's callback, or refreshView on settings-changed: a call
\* of renderCards.
RefreshRequested ==
    /\ StartsRun(data, filterPinned)
    /\ UNCHANGED <<data, vault, viewVars, storeVars, timeVars, pureVars, diskVars>>

\* filterPinned after a click on the grid's pin filter icon.
GridPinMode(mode) == IF mode = "all" THEN "pinned" ELSE "all"

\* A click on the pin filter icon.
PinFilterClick ==
    /\ filterPinned' = GridPinMode(filterPinned)
    /\ StartsRun(data, filterPinned')
    /\ UNCHANGED <<data, vault, filterTag, storeVars, timeVars, pureVars, diskVars>>

\* A click on the pin button of a card in the grid.
CardPinClick(card) ==
    /\ card \in Range(AllCards(grid))
    /\ data' = TogglePinData(data, card.path)
    /\ StartsRun(data', filterPinned)
    /\ UNCHANGED <<vault, viewVars, storeVars, timeVars, pureVars, diskVars>>

\* A cachedRead of the preload loop of the run in slot returns.
ReadReturns(slot) ==
    /\ runs[slot].pc = "reading"
    /\ Becomes(slot, AfterRead(World(slot), slot, data, filterPinned))
    /\ UNCHANGED <<data, vault, viewVars, storeVars, timeVars, draggedCard, starts, pureVars,
                   diskVars>>

\* A createCard of the run in slot returns.
CardCreated(slot) ==
    /\ runs[slot].pc = "creating"
    /\ Becomes(slot, AfterCard(World(slot), slot))
    /\ UNCHANGED <<data, vault, viewVars, storeVars, timeVars, draggedCard, starts, pureVars,
                   diskVars>>

\* A card element recorded with no data-path.
Dragged_NoPath(card) == <<[el |-> card.el, path |-> <<>>, detached |-> FALSE]>>

\* this.draggedCard = card: the element, which carries its data-path.
Dragged(card) == <<[el |-> card.el, path |-> card.path, detached |-> FALSE]>>

\* handleDragStart on a card in the grid.
HandleDragStart(card) ==
    /\ card \in Range(AllCards(grid))
    /\ draggedCard' = Dragged(card)
    /\ UNCHANGED <<data, vault, viewVars, storeVars, timeVars, grid, runs, currentFiles, starts, pureVars,
                   diskVars>>

\* handleDragEnd
HandleDragEnd ==
    /\ draggedCard # None
    /\ draggedCard' = None
    /\ UNCHANGED <<data, vault, viewVars, storeVars, timeVars, grid, runs, currentFiles, starts, pureVars,
                   diskVars>>

\* The record of a handleDrop: the paths of the dragged and the target card,
\* whether data changed, whether a re-run began, and the saves issued.
DropOp(draggedPath, targetPath, changed, reran, saves) ==
    Op("drop", draggedPath, targetPath, changed, reran, saves)

\* this.draggedCard === targetCard: the same element, not the same path.
\* el tells the cards in the grid apart; a card taken out of the grid is no
\* card of the grid, whatever its el.
SameElement(target) ==
    /\ draggedCard # None
    /\ ~draggedCard[1].detached
    /\ draggedCard[1].el = target.el

\* handleDrop on a card in the grid: nothing when no card is dragged, when
\* the dragged card is the target element or when a path is not in
\* currentFiles; else updateOrder and then renderCards.
HandleDrop(target) ==
    /\ target \in Range(AllCards(grid))
    /\ IF draggedCard = None \/ SameElement(target)
       THEN /\ lastOp' = DropOp(IF draggedCard = None THEN <<>> ELSE draggedCard[1].path,
                                target.path, FALSE, FALSE, 0)
            /\ UNCHANGED <<data, gridVars>>
       ELSE IF ~DropReorders(currentFiles, draggedCard[1].path, target.path)
       THEN /\ lastOp' = DropOp(draggedCard[1].path, target.path, FALSE, FALSE, 0)
            /\ UNCHANGED <<data, gridVars>>
       ELSE /\ data' = UpdateOrderData(data,
                           DropOrder(currentFiles, draggedCard[1].path, target.path))
            /\ StartsRun(data', filterPinned)
            /\ lastOp' = DropOp(draggedCard[1].path, target.path, data' # data, TRUE, 1)
    /\ UNCHANGED <<vault, viewVars, shown, timeVars, pureVars, diskVars>>

\* The cards a click or a drag can be on: those of the runs' slots.
CardsOfRuns == {[el |-> <<s, k>>, path |-> p] :
                    s \in Slots, k \in 0..(Len(GridNotes) - 1), p \in PathsRange(GridNotes)}

NextGrid ==
    \/ RefreshRequested
    \/ PinFilterClick
    \/ \E card \in CardsOfRuns : CardPinClick(card)
    \/ \E slot \in Slots : ReadReturns(slot)
    \/ \E slot \in Slots : CardCreated(slot)
    \/ \E card \in CardsOfRuns : HandleDragStart(card)
    \/ HandleDragEnd
    \/ \E target \in CardsOfRuns : HandleDrop(target)

SpecGrid == InitGrid /\ [][NextGrid]_vars

\* C4: in every reachable state of the grid view, also while runs started by
\* different events overlap at their reads, the grid holds at most maxNotes
\* cards.
C4_AtMostMaxNotes == Len(AllCards(grid)) <= data.maxNotes

\* The same, for the states in which one run at most has been in progress
\* since the grid was last emptied: all cards are of one run.
C4_AtMostMaxNotesOfOneRun ==
    (\A i, j \in DOMAIN grid : grid[i].slot = grid[j].slot)
        => Len(AllCards(grid)) <= data.maxNotes

\* C9: a drop whose source and target are the same note changes neither
\* noteOrder nor anything else of data and issues no save and no re-run,
\* also when the grid was rendered anew during the drag and the target is a
\* new card element of the same path.
C9_SameNoteDrop ==
    (lastOp.op = "drop" /\ lastOp.path = lastOp.to)
        => ~lastOp.was /\ ~lastOp.ret /\ lastOp.saves = 0

\* ------------------------------------------- settings tab: 'Maximum notes'

\* Longest text drawn as the content of the 'Maximum notes' field.
MaxInputLen == 4
\* Number.MAX_VALUE, scaled down as the width of an integer is: a numeral
\* whose value is beyond it parses to Infinity.
MaxFinite == 999

\* The characters typed into the field: digits, a sign, a letter, a space.
InputChars == {"0", "1", "-", "a", " "}

RECURSIVE TextsUpTo(_, _)
\* The texts over the characters cs of at most n characters.
TextsUpTo(cs, n) ==
    IF n = 0 THEN {<<>>}
    ELSE LET shorter == TextsUpTo(cs, n - 1)
         IN  shorter \cup {Append(s, c) : s \in shorter, c \in cs}

\* A number of the program: NaN, an infinity, or a finite integer.
Finite(n) == [nan |-> FALSE, inf |-> FALSE, v |-> n]
NaN == [nan |-> TRUE, inf |-> FALSE, v |-> 0]
Infinity(sign) == [nan |-> FALSE, inf |-> TRUE, v |-> sign]

IsDigit(c) == c \in {"0", "1", "2", "3", "4", "5", "6", "7", "8", "9"}

DigitVal(c) ==
    CASE c = "0" -> 0 [] c = "1" -> 1 [] c = "2" -> 2 [] c = "3" -> 3
      [] c = "4" -> 4 [] c = "5" -> 5 [] c = "6" -> 6 [] c = "7" -> 7
      [] c = "8" -> 8 [] c = "9" -> 9

RECURSIVE LeadingDigits(_)
\* The longest prefix of s made of digits.
LeadingDigits(s) ==
    IF s # <<>> /\ IsDigit(s[1]) THEN <<s[1]>> \o LeadingDigits(Tail(s)) ELSE <<>>

RECURSIVE DigitsValue(_, _)
\* The value of a digit string, read left to right; beyond MaxFinite it
\* stays beyond.
DigitsValue(ds, acc) ==
    IF ds = <<>> THEN acc
    ELSE DigitsValue(Tail(ds), Min(acc * 10 + DigitVal(ds[1]), MaxFinite + 1))

\* parseInt(value) for a value without a radix prefix: leading white space
\* is skipped, a sign is read, then the longest run of digits; what follows
\* the digits is ignored, and no digit at all gives NaN.
parseInt(value) ==
    LET t == TrimLeft(value)
        signed == t # <<>> /\ t[1] \in {"-", "+"}
        sign == IF signed /\ t[1] = "-" THEN -1 ELSE 1
        ds == LeadingDigits(IF signed THEN Tail(t) ELSE t)
        n == DigitsValue(ds, 0)
    IN  IF ds = <<>> THEN NaN
        ELSE IF n > MaxFinite THEN Infinity(sign)
        ELSE Finite(sign * n)

isNaN(x) == x.nan

\* num > 0
GreaterThanZero(x) == ~x.nan /\ x.v > 0

\* The condition under which the handler stores the number.
MaxNotesAccepted(num) == ~isNaN(num) /\ GreaterThanZero(num)

\* The settings tab is open on the default state.
InitSettings ==
    /\ data = [DefaultData EXCEPT !.maxNotes = Finite(DefaultMaxNotes)]
    /\ vault = <<>>
    /\ filterPinned = "all"
    /\ filterTag = NoTag
    /\ StoreIdle
    /\ TimeIdle
    /\ DiskIdle
    /\ GridIdle
    /\ PureIdle

\* onChange of the 'Maximum notes' field with the text now in the field.
\* savePluginData catches what saveData throws, so that the handler ends
\* normally whether or not the write succeeds; the handler's record keeps
\* whether maxNotes changed, whether an exception left the handler and the
\* number of calls of savePluginData.
MaxNotesChange(value) ==
    LET num == parseInt(value)
        stored == MaxNotesAccepted(num)
    IN  /\ data' = IF stored THEN [data EXCEPT !.maxNotes = num] ELSE data
        /\ arg' = <<value>>
        /\ res' = <<num>>
        /\ lastOp' = Op("maxNotes", value, <<>>, data'.maxNotes # data.maxNotes,
                        FALSE, IF stored THEN 1 ELSE 0)
        /\ UNCHANGED <<vault, viewVars, shown, timeVars, gridVars, diskVars>>

NextSettings ==
    \E value \in TextsUpTo(InputChars, MaxInputLen) : MaxNotesChange(value)

SpecSettings == InitSettings /\ [][NextSettings]_vars

\* A positive integer: finite and greater than zero.
IsPositiveInteger(x) == ~x.nan /\ ~x.inf /\ x.v > 0

\* A decimal numeral: an optional sign and digits, nothing else, white
\* space around it aside.
IsNumeral(s) ==
    LET t == Trim(s)
        body == IF t # <<>> /\ t[1] \in {"-", "+"} THEN Tail(t) ELSE t
    IN  body # <<>> /\ \A i \in DOMAIN body : IsDigit(body[i])

NonNumeric(s) == ~IsNumeral(s)
IsZero(s) == IsNumeral(s) /\ \A i \in DOMAIN Trim(s) : Trim(s)[i] \in {"0", "-", "+"}
IsNegative(s) == IsNumeral(s) /\ Trim(s)[1] = "-" /\ ~IsZero(s)

\* The last handler was an edit of the field that kept maxNotes, saved
\* nothing and ended normally.
EditRejected == ~lastOp.was /\ lastOp.saves = 0 /\ ~lastOp.ret

\* C11: from the default state maxNotes is a positive integer in every
\* reachable state, and an edit of 'Maximum notes' whose text is
\* non-numeric, zero or negative leaves maxNotes as it was, issues no save
\* and lets no exception out.
C11_MaxNotes ==
    /\ IsPositiveInteger(data.maxNotes)
    /\ (lastOp.op = "maxNotes"
            /\ (NonNumeric(lastOp.path) \/ IsZero(lastOp.path) \/ IsNegative(lastOp.path)))
        => EditRejected

\* What the handler does keep: maxNotes is never NaN, zero or negative, and
\* a text with no leading numeral, or with one that is zero or negative, is
\* rejected.
C11_MaxNotesOfLeadingNumeral ==
    /\ GreaterThanZero(data.maxNotes)
    /\ (lastOp.op = "maxNotes" /\ ~MaxNotesAccepted(res[1])) => EditRejected

\* A rejected edit after an accepted one: maxNotes keeps the accepted value.
C11_RejectedAfterAccepted ==
    /\ lastOp.op = "maxNotes" /\ arg = <<<<"-", "1">>>>
    /\ EditRejected
    /\ data.maxNotes = Finite(11)

\* ------------------------------------------- the grid: runs that can fail

\* The error message renderCards appends in its catch block.
ErrorState(slot) == [slot |-> slot, sec |-> 0, kind |-> "error", cards |-> <<>>]

\* A call of renderCards that throws before its first await (getFiles, the
\* extension, folder and exclusion filters or the recency sort): the grid
\* was emptied by the call's first statement, the catch block appends the
\* error message and the call is over.
RefreshThrows ==
    /\ SomeSlotIdle
    /\ starts < MaxStarts
    /\ starts' = starts + 1
    /\ grid' = <<ErrorState(FreeSlot)>>
    /\ draggedCard' = IF draggedCard = None THEN None
                      ELSE <<[draggedCard[1] EXCEPT !.detached = TRUE]>>
    /\ UNCHANGED <<data, vault, viewVars, storeVars, timeVars, runs, currentFiles, pureVars,
                   diskVars>>

\* The last cachedRead of the preload loop of the run in slot returns and
\* the filtering or sorting that follows it (pin filter, tag filter,
\* sortByOrder) throws: the catch block appends the error message to the
\* grid as it is then.
FilterThrows(slot) ==
    /\ runs[slot].pc = "reading"
    /\ runs[slot].k + 1 = Len(runs[slot].files)
    /\ grid' = Append(grid, ErrorState(slot))
    /\ runs' = [runs EXCEPT ![slot] = IdleRun]
    /\ UNCHANGED <<data, vault, viewVars, storeVars, timeVars, draggedCard, currentFiles,
                   starts, pureVars, diskVars>>

NextGridErrors ==
    \/ RefreshRequested
    \/ PinFilterClick
    \/ \E card \in CardsOfRuns : CardPinClick(card)
    \/ RefreshThrows
    \/ \E slot \in Slots : ReadReturns(slot)
    \/ \E slot \in Slots : FilterThrows(slot)
    \/ \E slot \in Slots : CardCreated(slot)

SpecGridErrors == InitGrid /\ [][NextGridErrors]_vars

HasError(children) == \E i \in DOMAIN children : children[i].kind = "error"
HasEmptyState(children) == \E i \in DOMAIN children : children[i].kind = "empty"

\* C12: in no reachable state of the grid view, however the runs of
\* renderCards interleave, is the error message in the grid together with
\* note cards or with the empty-state message.
C12_ErrorAlone ==
    HasError(grid) => AllCards(grid) = <<>> /\ ~HasEmptyState(grid)

\* The same, for the states in which everything in the grid was put there
\* by one run: a run that fails leaves its error message and nothing else.
C12_ErrorAloneOfOneRun ==
    (\A i, j \in DOMAIN grid : grid[i].slot = grid[j].slot)
        => (HasError(grid) => Len(grid) = 1)

\* A failed run with no other run in progress: the error message alone.
C12_FailedRun ==
    /\ HasError(grid) /\ Len(grid) = 1
    /\ \A s \in Slots : runs[s].pc = "idle"

\* ------------------------------------------ runs with a note unreadable

\* The content of a note whose cachedRead throws.
Unreadable == <<"cachedRead throws">>

Readable(f) == f.content # Unreadable

\* fileContents as the preload loop of renderCards fills it: the text read,
\* or '' where the read threw.
PreloadedContents(listing) ==
    [p \in PathsRange(listing) |->
        LET f == CHOOSE g \in Range(listing) : g.path = p
        IN  IF Readable(f) THEN f.content ELSE <<>>]

\* One run of renderCards with no other handler in between: a note whose
\* read throws in the preload loop stays in the batch with the text '', and
\* createCard, whose own read throws, returns null for it.
RenderCardsWithReads(listing, d, pinMode, activeTag) ==
    LET pre == PreLimit(Candidates(listing, d), d)
        files == Filtered(pre, PreloadedContents(listing), d, pinMode, activeTag)
    IN  [view |-> "grid",
         items |-> PathsOf(SelectSeq(Flattened(files, d), Readable)),
         empty |-> Len(files) = 0,
         error |-> FALSE]

\* String.prototype.endsWith
EndsWith(s, p) == Len(p) <= Len(s) /\ SubSeq(s, Len(s) - Len(p) + 1, Len(s)) = p

Excalidraw == <<".", "e", "x", "c", "a", "l", "i", "d", "r", "a", "w">>

\* A folder setting without its trailing "/".
NormalizedFolder(folder) ==
    IF EndsWith(folder, <<"/">>) THEN SubSeq(folder, 1, Len(folder) - 1) ELSE folder

\* loadNotes up to the tag collection: extension, Excalidraw, source folder
\* and excluded folders.
SidebarCandidates(listing, d) ==
    LET byExt == ExtensionFilter(listing, d)
        noDrawings == SelectSeq(byExt, LAMBDA f :
                          /\ ~EndsWith(ToLowerCase(f.path), Excalidraw \o <<".">> \o Ext_md)
                          /\ ~EndsWith(ToLowerCase(f.path), Excalidraw))
        inFolder == IF d.sourceFolder # Root
                    THEN SelectSeq(noDrawings, LAMBDA f :
                             InExcludedFolder(f.path, NormalizedFolder(d.sourceFolder)))
                    ELSE noDrawings
    IN  IF Len(d.excludedFolders) > 0
        THEN SelectSeq(inFolder, LAMBDA f :
                 ~\E i \in DOMAIN d.excludedFolders :
                     InExcludedFolder(f.path, NormalizedFolder(d.excludedFolders[i])))
        ELSE inFolder

\* The comparator that moves pinned notes to the top.
PinnedFirst(d, a, b) ==
    IF isPinned(d, a.path) /\ ~isPinned(d, b.path) THEN -1
    ELSE IF ~isPinned(d, a.path) /\ isPinned(d, b.path) THEN 1
    ELSE 0

\* loadNotes: currentFiles. The tag collection reads every candidate with
\* no try of its own, so that one read that throws takes the run to the
\* outer catch, which sets currentFiles to [].
LoadNotes(listing, d) ==
    LET files == SidebarCandidates(listing, d)
        byMtime == StableSort(files, [a \in Range(files), b \in Range(files) |-> ByMtimeDesc(a, b)])
        byOrder == IF Len(d.noteOrder) > 0
                   THEN StableSort(byMtime, [a \in Range(files), b \in Range(files) |->
                                                sortByOrder(d, a, b)])
                   ELSE byMtime
        pinnedTop == StableSort(byOrder, [a \in Range(files), b \in Range(files) |->
                                             PinnedFirst(d, a, b)])
    IN  IF \E i \in DOMAIN files : ~Readable(files[i]) THEN <<>>
        ELSE IF Len(pinnedTop) > d.maxNotes THEN Slice0(pinnedTop, d.maxNotes)
        ELSE pinnedTop

\* renderNotesList on the files loadNotes left, with no search query: the
\* pin filter, the tag filter with its own reads, then one item per file
\* for which createNoteItem, with its own read, returns one; a read that
\* throws in the tag filter takes the run to the catch block and the error
\* message.
RenderNotesList(files, d, pinMode, activeTag) ==
    LET byPin == PinnedFilter(files, d, pinMode)
        tagThrows == activeTag # NoTag /\ \E i \in DOMAIN byPin : ~Readable(byPin[i])
        filteredFiles == IF activeTag # NoTag /\ ~tagThrows
                         THEN SelectSeq(byPin, LAMBDA f :
                                  activeTag \in Range(extractTags(f.content)))
                         ELSE byPin
    IN  [view |-> "sidebar",
         items |-> IF tagThrows THEN <<>> ELSE PathsOf(SelectSeq(filteredFiles, Readable)),
         empty |-> ~tagThrows /\ Len(filteredFiles) = 0,
         error |-> tagThrows]

\* SidebarView.refreshView
SidebarRefresh(listing, d, pinMode, activeTag) ==
    RenderNotesList(LoadNotes(listing, d), d, pinMode, activeTag)

ReadNotes == <<P_a, P_b, P_c>>

\* The listings of ReadNotes in which the notes of U are unreadable.
ListingsWithUnreadable(U) ==
    {[i \in DOMAIN l |-> IF l[i].path \in U THEN [l[i] EXCEPT !.content = Unreadable] ELSE l[i]] :
        l \in Listings(ReadNotes, TextOf)}

\* A view is about to run its pipeline on a vault in which some notes may be
\* unreadable.
InitReads ==
    /\ \E U \in SUBSET {P_a, P_b} : vault \in ListingsWithUnreadable(U)
    /\ \E pinned \in SeqsNoDup({P_a, P_c}, 2), maxNotes \in 1..Len(ReadNotes) :
           data = [DefaultData EXCEPT !.pinnedNotes = pinned, !.maxNotes = maxNotes]
    /\ filterPinned \in {"all", "pinned", "unpinned"}
    /\ filterTag \in {NoTag, Tag_t}
    /\ StoreIdle
    /\ TimeIdle
    /\ DiskIdle
    /\ GridIdle
    /\ PureIdle

\* The grid view renders; its pin filter is 'all' or 'pinned'.
GridRenders ==
    /\ res = None
    /\ filterPinned # "unpinned"
    /\ res' = <<RenderCardsWithReads(vault, data, filterPinned, filterTag)>>
    /\ UNCHANGED <<data, vault, viewVars, storeVars, timeVars, gridVars, arg, diskVars>>

\* The sidebar view refreshes.
SidebarRefreshes ==
    /\ res = None
    /\ res' = <<SidebarRefresh(vault, data, filterPinned, filterTag)>>
    /\ UNCHANGED <<data, vault, viewVars, storeVars, timeVars, gridVars, arg, diskVars>>

NextReads == GridRenders \/ SidebarRefreshes

SpecReads == InitReads /\ [][NextReads]_vars

\* The vault with every unreadable note readable and empty.
AllReadable(listing) ==
    [i \in DOMAIN listing |->
        IF Readable(listing[i]) THEN listing[i] ELSE [listing[i] EXCEPT !.content = <<>>]]

UnreadablePaths(listing) == {listing[i].path : i \in {j \in DOMAIN listing : ~Readable(listing[j])}}

\* What the view's run displays when every read succeeds.
DisplayedIfReadable ==
    IF Out.view = "grid"
    THEN RenderCardsWithReads(AllReadable(vault), data, filterPinned, filterTag).items
    ELSE SidebarRefresh(AllReadable(vault), data, filterPinned, filterTag).items

\* The run displayed every note it displays when all reads succeed, the
\* unreadable ones aside, in the same order, and no error message.
ReadFailureSkipped ==
    /\ Out.items = SelectSeq(DisplayedIfReadable, LAMBDA p : p \notin UnreadablePaths(vault))
    /\ ~Out.error

\* C13: in the grid view and in the sidebar view, a run in which the read of
\* one note fails displays every other note that passes the filters,
\* displays nothing for the unreadable note and shows no error state.
C13_ReadFailure ==
    (Done /\ Cardinality(UnreadablePaths(vault)) = 1) => ReadFailureSkipped

\* The same for the grid view alone, with any number of unreadable notes.
C13_ReadFailureInGrid ==
    (Done /\ Out.view = "grid") => ReadFailureSkipped

\* A grid run over a vault with an unreadable note that shows another note.
C13_GridSkipsUnreadable ==
    /\ Done /\ Out.view = "grid"
    /\ UnreadablePaths(vault) = {P_a}
    /\ Out.items = <<P_c, P_b>>

\* ------------------------------------------------- quick capture: saveNote

\* Most notes created through the quick-capture form.
MaxCreated == 3
\* The length the sanitized title is cut to.
TitleMaxLen == 100
\* Words of the body that make the title when none is given.
TitleWords == 5

InvalidChars == {"\\", "/", ":", "*", "?", "\"", "<", ">", "|"}

\* title.replace(/[\\/:*?"<>|]/g, '-')
ReplaceInvalid(s) == [i \in DOMAIN s |-> IF s[i] \in InvalidChars THEN "-" ELSE s[i]]

RECURSIVE CollapseSpaces(_)
\* s.replace(/\s+/g, ' '): every run of white space becomes one space.
CollapseSpaces(s) ==
    IF s = <<>> THEN <<>>
    ELSE IF IsSpace(s[1]) THEN <<" ">> \o CollapseSpaces(TrimLeft(s))
    ELSE <<s[1]>> \o CollapseSpaces(Tail(s))

\* The title made fit for a file name.
SanitizedTitle(title) == Slice0(Trim(CollapseSpaces(ReplaceInvalid(title))), TitleMaxLen)

RECURSIVE SplitWords(_)
\* s.split(/\s+/) for a text that neither begins nor ends with white space
\* and is not empty.
SplitWords(s) ==
    LET ws == {i \in DOMAIN s : IsSpace(s[i])}
    IN  IF ws = {} THEN <<s>>
        ELSE LET i == CHOOSE j \in ws : \A k \in ws : j <= k
             IN  <<SubSeq(s, 1, i - 1)>> \o SplitWords(TrimLeft(SubSeq(s, i, Len(s))))

RECURSIVE Join(_, _)
\* words.join(sep)
Join(words, sep) ==
    IF words = <<>> THEN <<>>
    ELSE IF Len(words) = 1 THEN words[1]
    ELSE words[1] \o sep \o Join(Tail(words), sep)

\* The title saveNote passes on when the title field is empty: the first
\* words of the body, with '...' when there are more.
TitleFromContent(content) ==
    LET words == SplitWords(content)
    IN  Join(Slice0(words, TitleWords), <<" ">>)
            \o (IF Len(words) > TitleWords THEN <<".", ".", ".">> ELSE <<>>)

DigitChar(n) ==
    CASE n = 0 -> "0" [] n = 1 -> "1" [] n = 2 -> "2" [] n = 3 -> "3" [] n = 4 -> "4"
      [] n = 5 -> "5" [] n = 6 -> "6" [] n = 7 -> "7" [] n = 8 -> "8" [] n = 9 -> "9"

TwoDigits(n) == <<DigitChar(n \div 10), DigitChar(n % 10)>>

\* toLocaleDateString('en-CA') and toLocaleTimeString('en-GB', hour and
\* minute in two digits) of a time t in ms on the first day of the clock.
DateOf(t) == <<"1", "9", "7", "0", "-", "0", "1", "-", "0", "1">>
TimeOf(t) ==
    LET minutes == t \div 60000
    IN  TwoDigits((minutes \div 60) % 24) \o <<":">> \o TwoDigits(minutes % 60)

\* The date-time file name, without its extension.
DateTimeName(t) == DateOf(t) \o <<" ">> \o TimeOf(t)

DotMd == <<".">> \o Ext_md

\* s.replace(pattern, '') for a string pattern: the first occurrence goes.
RemoveFirstOccurrence(s, pattern) ==
    LET at == {i \in 1..(Len(s) - Len(pattern) + 1) : SubSeq(s, i, i + Len(pattern) - 1) = pattern}
    IN  IF at = {} THEN s
        ELSE LET i == CHOOSE j \in at : \A k \in at : j <= k
             IN  SubSeq(s, 1, i - 1) \o SubSeq(s, i + Len(pattern), Len(s))

RECURSIVE AvailableName(_, _, _)
\* The loop that looks for a file name no file of the root folder has.
AvailableName(fileName, counter, taken) ==
    IF fileName \in taken
    THEN AvailableName(RemoveFirstOccurrence(fileName, DotMd)
                           \o <<" ", "(", DigitChar(counter), ")">> \o DotMd,
                       counter + 1, taken)
    ELSE fileName

\* createQuickNote with the new notes going to the vault root: the path and
\* the content of the file created.
createQuickNote(title, content, t, taken) ==
    LET fileName == IF title # <<>> THEN SanitizedTitle(title) \o DotMd
                    ELSE DateTimeName(t) \o DotMd
    IN  [path |-> AvailableName(fileName, 1, taken),
         content |-> (IF title # <<>> THEN <<"#", " ">> \o title \o <<"\n", "\n">> ELSE <<>>)
                         \o content]

\* Texts typed into the title field and into the body.
QuickTitles == {<<>>, <<" ">>, <<"a">>, <<" ", "a", "/", "b", " ", " ", "c", " ">>}
QuickBodies == {<<>>, <<"b", " ">>, <<"b", " ", "c", "\n", "d", " ", "e", " ", "f", " ", "g">>}

\* The form is open on a vault without notes.
InitQuickNote ==
    /\ data = DefaultData
    /\ vault = <<>>
    /\ filterPinned = "all"
    /\ filterTag = NoTag
    /\ StoreIdle
    /\ now \in {0, 61 * 60000}
    /\ timers = [v \in Views |-> {}]
    /\ refreshTimeoutId = [v \in Views |-> 0]
    /\ hist = [v \in Views |-> NoBurst]
    /\ closed = {}
    /\ DiskIdle
    /\ GridIdle
    /\ PureIdle

\* saveNote of the quick-capture form with the texts of its two fields:
\* nothing when both are empty, else createQuickNote with the title given
\* or, when none is given, with the title made from the body.
SaveNote(titleInput, contentInput) ==
    LET given == Trim(titleInput)
        content == Trim(contentInput)
        title == IF given = <<>> /\ content # <<>> THEN TitleFromContent(content) ELSE given
        note == createQuickNote(title, content, now, PathsRange(vault))
    IN  /\ Len(vault) < MaxCreated
        /\ arg' = <<[title |-> given, content |-> content]>>
        /\ IF given = <<>> /\ content = <<>>
           THEN res' = None /\ vault' = vault
           ELSE res' = <<note>> /\ vault' = Append(vault, File(note.path, 1, note.content))
        /\ UNCHANGED <<data, viewVars, storeVars, timeVars, gridVars, diskVars>>

NextQuickNote ==
    \E titleInput \in QuickTitles, contentInput \in QuickBodies : SaveNote(titleInput, contentInput)

SpecQuickNote == InitQuickNote /\ [][NextQuickNote]_vars

\* The note just created has a date-time file name.
TimestampNamed == StartsWith(Out.path, DateTimeName(now))

\* The note just created has the given title, sanitized, as its file name
\* (a counter aside) and '# title' as its first line.
TitleNamed ==
    /\ StartsWith(Out.path, SanitizedTitle(arg[1].title))
    /\ StartsWith(Out.content, <<"#", " ">> \o arg[1].title \o <<"\n">>)

\* C14: a submission with an empty title and a body creates a note with a
\* date-time file name whose content is the body with no heading made from
\* it; a submission with a title creates a note named after the sanitized
\* title whose content begins with '# title'.
C14_QuickCapture ==
    (Done /\ arg # None) =>
        /\ (arg[1].title = <<>> /\ arg[1].content # <<>>)
               => TimestampNamed /\ Out.content = arg[1].content
        /\ arg[1].title # <<>> => TitleNamed

\* The part about a submission with a title.
C14_QuickCaptureWithTitle ==
    (Done /\ arg # None /\ arg[1].title # <<>>) => TitleNamed

\* A submission with the title " a/b  c " and a body.
C14_TitleSanitized ==
    /\ Done /\ arg # None
    /\ arg[1].title = <<"a", "/", "b", " ", " ", "c">>
    /\ Out.path = <<"a", "-", "b", " ", "c", ".", "m", "d">>

\* ------------------------------------------------- extractTags on texts

\* Most words of a text without front matter, and most values of a tags
\* field.
MaxWords == 4
MaxValues == 2

RECURSIVE SeqsUpTo(_, _)
\* The sequences over S of at most n members.
SeqsUpTo(S, n) ==
    IF n = 0 THEN {<<>>}
    ELSE LET shorter == SeqsUpTo(S, n - 1)
         IN  shorter \cup {Append(q, x) : q \in shorter, x \in S}

\* Words of a note's body: two tags and a plain word.
TagWords == {<<"#", "a">>, <<"#", "b">>, <<"h">>}

\* The bodies: words with a space between them.
Bodies == {Join(ws, <<" ">>) : ws \in SeqsUpTo(TagWords, MaxWords)}

\* What follows the front matter: nothing, or a line of words.
BodiesBelow == {<<>>, <<"#", "b">>, <<"#", "a", " ", "h", " ", "#", "b">>}

\* A value of the tags field as written: bare or in quotes.
Written(item) == item.quote \o item.value \o item.quote

TagItems == [value : {<<"a">>, <<"b">>}, quote : {<<>>, <<"\"">>, <<"'">>}]

TagsField == <<"t", "a", "g", "s", ":">>

\* tags: [x, "y"]
BracketField(items) ==
    TagsField \o <<" ", "[">> \o Join([i \in DOMAIN items |-> Written(items[i])], <<",", " ">>)
              \o <<"]">>

\* tags: and one '- value' line per value, each behind the indent.
ListField(items, indent) ==
    TagsField \o Join([i \in DOMAIN items |-> <<"\n">> \o indent \o <<"-", " ">> \o Written(items[i])],
                      <<>>)

\* A note that opens with a front-matter block holding the field.
WithFrontmatter(field, below) ==
    FrontmatterOpen \o field \o FrontmatterClose
        \o (IF below = <<>> THEN <<>> ELSE <<"\n">> \o below)

ValuesOf(items) == [i \in DOMAIN items |-> items[i].value]

\* The texts extractTags is applied to, each with the form of its tags
\* field and the values the field lists.
TagInputs ==
    {[text |-> b, form |-> "none", values |-> <<>>] : b \in Bodies}
    \cup {[text |-> WithFrontmatter(BracketField(items), below),
           form |-> "bracket", values |-> ValuesOf(items)] :
              items \in SeqsUpTo(TagItems, MaxValues), below \in BodiesBelow}
    \cup {[text |-> WithFrontmatter(ListField(items, indent), below),
           form |-> "list", values |-> ValuesOf(items)] :
              items \in SeqsUpTo(TagItems, MaxValues), below \in BodiesBelow,
              indent \in {<<>>, <<" ", " ">>}}

InitTags ==
    /\ data = DefaultData
    /\ vault = <<>>
    /\ filterPinned = "all"
    /\ filterTag = NoTag
    /\ StoreIdle
    /\ TimeIdle
    /\ DiskIdle
    /\ GridIdle
    /\ arg \in {<<in>> : in \in TagInputs}
    /\ res = None

\* extractTags is called on the text.
ExtractTagsCall ==
    /\ res = None
    /\ res' = <<extractTags(arg[1].text)>>
    /\ UNCHANGED <<data, vault, viewVars, storeVars, timeVars, gridVars, arg, diskVars>>

NextTags == ExtractTagsCall

SpecTags == InitTags /\ [][NextTags]_vars

\* The positions of the inline tags of s: a '#' at the start of the text or
\* behind white space, with a tag character behind it.
TagPositions(s) ==
    {i \in DOMAIN s : /\ s[i] = "#"
                      /\ i = 1 \/ IsSpace(s[i - 1])
                      /\ i < Len(s) /\ IsTagChar(s[i + 1])}

\* The inline tag at position i.
TagAt(s, i) == SubSeq(s, i, TagEnd(s, SegEnd(s, i + 1)) - 1)

\* Where the tag t occurs first in s.
FirstPosition(s, t) ==
    CHOOSE i \in TagPositions(s) :
        TagAt(s, i) = t /\ \A k \in TagPositions(s) : TagAt(s, k) = t => i <= k

NoDuplicates(q) == \A i, j \in DOMAIN q : q[i] = q[j] => i = j

\* C15: extractTags returns a sequence without duplicates that holds every
\* inline tag once, the inline tags in the order of their first
\* occurrences, and behind all of them every front-matter tag that is no
\* inline tag; it holds nothing else.
C15_ExtractTags ==
    Done =>
        LET s == arg[1].text
            inline == {TagAt(s, i) : i \in TagPositions(s)}
            fromFrontmatter == Range(extractFrontmatterTags(s))
        IN  /\ NoDuplicates(Out)
            /\ Range(Out) = inline \cup fromFrontmatter
            /\ \A i, j \in DOMAIN Out :
                   (Out[i] \in inline /\ Out[j] \in inline /\ i < j)
                       => FirstPosition(s, Out[i]) < FirstPosition(s, Out[j])
            /\ \A i, j \in DOMAIN Out :
                   (Out[i] \in inline /\ Out[j] \notin inline) => i < j

\* "#a h #b #a" gives ["#a", "#b"], and a front-matter tag follows the
\* inline tags.
C15_RepeatedTag ==
    /\ Done
    /\ \/ /\ arg[1].text = <<"#", "a", " ", "h", " ", "#", "b", " ", "#", "a">>
          /\ Out = <<<<"#", "a">>, <<"#", "b">>>>
       \/ /\ arg[1].form = "bracket" /\ arg[1].values = <<<<"a">>>>
          /\ Out = <<<<"#", "b">>, <<"#", "a">>>>

\* '#v1'..'#vk'
HashTagsOf(values) == [i \in DOMAIN values |-> <<"#">> \o values[i]]

\* The result is the inline tags and behind them '#v1'..'#vk', each unless
\* it is there already.
ValuesAppended ==
    Out = PushNew(InlineTags(arg[1].text, 1, <<>>), HashTagsOf(arg[1].values))

\* C16: for a text that opens with a front-matter block whose tags field
\* lists v1..vk, bracketed or one '- value' per line, the front-matter tags
\* are '#v1'..'#vk' in that order, quotes stripped, and nothing else, behind
\* the inline tags.
C16_FrontmatterTags ==
    (Done /\ arg[1].form \in {"bracket", "list"}) => ValuesAppended

\* The same for the bracketed form alone.
C16_FrontmatterTagsBracketed ==
    (Done /\ arg[1].form = "bracket") => ValuesAppended

\* tags: ["b", a] over a body with #b gives #b, then #a.
C16_BracketedValues ==
    /\ Done /\ arg[1].form = "bracket"
    /\ arg[1].values = <<<<"b">>, <<"a">>>>
    /\ Out = <<<<"#", "b">>, <<"#", "a">>>>

\* ------------------------------------------ stripMarkdown, getPreviewText

RECURSIVE ReplaceAll(_, _, _, _)
\* s.replace(pattern, replacement) with the g flag, from position pos on:
\* ends[i] is the index behind the match that begins at i (0 for none) and
\* repl[i] what it is replaced by; the search goes on behind each match.
ReplaceAll(s, ends, repl, pos) ==
    IF pos > Len(s) THEN <<>>
    ELSE IF ends[pos] > 0 THEN repl[pos] \o ReplaceAll(s, ends, repl, ends[pos])
    ELSE <<s[pos]>> \o ReplaceAll(s, ends, repl, pos + 1)

\* ^ under the m flag.
AtLineStart(s, i) == i = 1 \/ s[i - 1] = "\n"

\* .replace(/^---[\s\S]*?---\n?/, ''): the text from an opening '---' to
\* the first '---' behind it, with the line end that follows.
WithoutFrontmatter(s) ==
    LET dashes == <<"-", "-", "-">>
        close == FirstAt(s, dashes, 4)
        behind == IF close + 3 <= Len(s) /\ s[close + 3] = "\n" THEN close + 4 ELSE close + 3
    IN  IF StartsWith(s, dashes) /\ close > 0 THEN SubSeq(s, behind, Len(s)) ELSE s

RECURSIVE RunEnd(_, _, _)
\* Index behind the longest run of characters of cs that starts at i.
RunEnd(s, i, cs) == IF i <= Len(s) /\ s[i] \in cs THEN RunEnd(s, i + 1, cs) ELSE i

\* .replace(/^<marker>\s+/gm, '') where the marker that begins at a line
\* start ends before index m (m = i when there is none).
WithoutLinePrefix(s, MarkerEnd) ==
    LET ends == [i \in DOMAIN s |->
                    IF AtLineStart(s, i) /\ MarkerEnd[i] > i /\ WsEnd(s, MarkerEnd[i]) > MarkerEnd[i]
                    THEN WsEnd(s, MarkerEnd[i]) ELSE 0]
    IN  ReplaceAll(s, ends, [i \in DOMAIN s |-> <<>>], 1)

\* /^#+\s+/gm
WithoutHeaders(s) == WithoutLinePrefix(s, [i \in DOMAIN s |-> RunEnd(s, i, {"#"})])

\* /^>\s+/gm
WithoutBlockquotes(s) ==
    WithoutLinePrefix(s, [i \in DOMAIN s |-> IF s[i] = ">" THEN i + 1 ELSE i])

\* /^[-*+]\s+/gm
WithoutListItems(s) ==
    WithoutLinePrefix(s, [i \in DOMAIN s |-> IF s[i] \in {"-", "*", "+"} THEN i + 1 ELSE i])

\* /^\d+\.\s+/gm
WithoutNumbers(s) ==
    WithoutLinePrefix(s, [i \in DOMAIN s |->
        LET d == RunEnd(s, i, {"0", "1", "2", "3", "4", "5", "6", "7", "8", "9"})
        IN  IF d > i /\ d <= Len(s) /\ s[d] = "." THEN d + 1 ELSE i])

\* The index behind the match of <mark>(.+?)<mark> that begins at i, 0 for
\* none: the closing mark is the first one with at least one character and
\* no line end between it and the opening mark.
MarkedEnd(s, i, mark) ==
    LET n == Len(mark)
        closes == {c \in (i + n + 1)..(Len(s) - n + 1) :
                       /\ SubSeq(s, c, c + n - 1) = mark
                       /\ \A k \in (i + n)..(c - 1) : s[k] # "\n"}
    IN  IF i + n - 1 <= Len(s) /\ SubSeq(s, i, i + n - 1) = mark /\ closes # {}
        THEN (CHOOSE c \in closes : \A k \in closes : c <= k) + n
        ELSE 0

\* .replace(/<mark>(.+?)<mark>/g, '$1')
Unmarked(s, mark) ==
    LET ends == [i \in DOMAIN s |-> MarkedEnd(s, i, mark)]
        repl == [i \in DOMAIN s |-> SubSeq(s, i + Len(mark), ends[i] - Len(mark) - 1)]
    IN  ReplaceAll(s, ends, repl, 1)

\* The backtick character, by name: a string of the language cannot hold it.
Backtick == "backtick"

\* The index behind the code span that begins at i, 0 for none. The opening takes up to three backticks of the run at i; when it
\* took the whole run, the closing is the next run, and if there is none
\* the opening gives one backtick back for the closing.
CodeEnd(s, i) ==
    LET r == RunEnd(s, i, {Backtick}) - i
        next == FirstAt(s, <<Backtick>>, i + r)
    IN  IF r = 0 THEN 0
        ELSE IF r > 3 THEN i + 3 + Min(r - 3, 3)
        ELSE IF next > 0 THEN next + Min(RunEnd(s, next, {Backtick}) - next, 3)
        ELSE IF r >= 2 THEN i + r
        ELSE 0

\* The replace that takes code spans out: one to three backticks, what is
\* no backtick, one to three backticks.
WithoutCode(s) ==
    ReplaceAll(s, [i \in DOMAIN s |-> CodeEnd(s, i)], [i \in DOMAIN s |-> <<>>], 1)

\* The index behind the match of \[([^\]]{least,})\]\([^)]+\) whose '[' is
\* at i, 0 for none.
BracketsEnd(s, i, least) ==
    LET c == FirstAt(s, <<"]">>, i + 1)
        d == FirstAt(s, <<")">>, c + 2)
    IN  IF i <= Len(s) /\ s[i] = "[" /\ c >= i + 1 + least
           /\ c < Len(s) /\ s[c + 1] = "(" /\ d > c + 2
        THEN d + 1 ELSE 0

\* .replace(/\[([^\]]+)\]\([^)]+\)/g, '$1')
WithoutLinks(s) ==
    LET ends == [i \in DOMAIN s |-> BracketsEnd(s, i, 1)]
        repl == [i \in DOMAIN s |-> SubSeq(s, i + 1, FirstAt(s, <<"]">>, i + 1) - 1)]
    IN  ReplaceAll(s, ends, repl, 1)

\* .replace(/!\[([^\]]*)\]\([^)]+\)/g, '')
WithoutImages(s) ==
    LET ends == [i \in DOMAIN s |-> IF s[i] = "!" THEN BracketsEnd(s, i + 1, 0) ELSE 0]
    IN  ReplaceAll(s, ends, [i \in DOMAIN s |-> <<>>], 1)

\* .replace(/(?:^|\s)#<tag>/g, ''): the tag goes with the white space
\* before it.
WithoutTags(s) ==
    LET hash == [i \in DOMAIN s |->
                    IF i = 1 /\ s[1] = "#" /\ SegEnd(s, 2) > 2 THEN 1
                    ELSE IF IsSpace(s[i]) /\ i < Len(s) /\ s[i + 1] = "#" /\ SegEnd(s, i + 2) > i + 2
                         THEN i + 1
                         ELSE 0]
        ends == [i \in DOMAIN s |->
                    IF hash[i] > 0 THEN TagEnd(s, SegEnd(s, hash[i] + 1)) ELSE 0]
    IN  ReplaceAll(s, ends, [i \in DOMAIN s |-> <<>>], 1)

\* stripMarkdown: the replacements in the order of the code, then trim.
stripMarkdown(content) ==
    LET headers == WithoutHeaders(WithoutFrontmatter(content))
        emphasis == Unmarked(Unmarked(Unmarked(Unmarked(Unmarked(headers,
                        <<"*", "*">>), <<"*">>), <<"_", "_">>), <<"_">>), <<"~", "~">>)
        plain == WithoutImages(WithoutLinks(WithoutCode(emphasis)))
    IN  Trim(WithoutTags(WithoutNumbers(WithoutListItems(WithoutBlockquotes(plain)))))

\* text.replace(/\n{2,}/g, '\n')
SingleLineEnds(s) ==
    LET ends == [i \in DOMAIN s |->
                    IF RunEnd(s, i, {"\n"}) >= i + 2 THEN RunEnd(s, i, {"\n"}) ELSE 0]
    IN  ReplaceAll(s, ends, [i \in DOMAIN s |-> <<"\n">>], 1)

Ellipsis == <<".", ".", ".">>

\* getPreviewText cutting one character too late.
getPreviewText_LateCut(content, maxLength) ==
    LET text == Trim(SingleLineEnds(stripMarkdown(content)))
    IN  IF Len(text) > maxLength
        THEN Trim(Slice0(text, maxLength + 1)) \o Ellipsis
        ELSE text

getPreviewText(content, maxLength) ==
    LET text == Trim(SingleLineEnds(stripMarkdown(content)))
    IN  IF Len(text) > maxLength
        THEN Trim(Slice0(text, maxLength)) \o Ellipsis
        ELSE text

\* Longest text drawn as a note's content, and largest maxLength drawn.
MaxTextLen == 4
MaxPreviewLen == 3

\* The characters of the drawn contents: markers, a letter, white space.
ContentChars == {"#", "*", " ", "a", "\n"}

\* A content and a maxLength are given.
InitMarkdown ==
    /\ data = DefaultData
    /\ vault = <<>>
    /\ filterPinned = "all"
    /\ filterTag = NoTag
    /\ StoreIdle
    /\ TimeIdle
    /\ DiskIdle
    /\ GridIdle
    /\ \E content \in TextsUpTo(ContentChars, MaxTextLen), maxLength \in 0..MaxPreviewLen :
           arg = <<[content |-> content, maxLength |-> maxLength]>>
    /\ res = None

\* getPreviewText is called on the content with the maxLength.
GetPreviewTextCall ==
    /\ res = None
    /\ res' = <<[of |-> "getPreviewText",
                 text |-> getPreviewText(arg[1].content, arg[1].maxLength)]>>
    /\ UNCHANGED <<data, vault, viewVars, storeVars, timeVars, gridVars, arg, diskVars>>

\* stripMarkdown is called on the content, and again on what it returned.
StripMarkdownTwice ==
    /\ res = None
    /\ LET once == stripMarkdown(arg[1].content)
       IN  res' = <<[of |-> "stripMarkdown", text |-> once, again |-> stripMarkdown(once)]>>
    /\ UNCHANGED <<data, vault, viewVars, storeVars, timeVars, gridVars, arg, diskVars>>

NextMarkdown == GetPreviewTextCall \/ StripMarkdownTwice

SpecMarkdown == InitMarkdown /\ [][NextMarkdown]_vars

\* C17: getPreviewText(s, n) with n >= 0 has at most n + 3 characters.
C17_PreviewLength ==
    (Done /\ Out.of = "getPreviewText") => Len(Out.text) <= arg[1].maxLength + 3

\* A text cut to maxLength characters with the ellipsis behind them.
C17_CutWithEllipsis ==
    /\ Done /\ Out.of = "getPreviewText"
    /\ arg[1].maxLength = 2
    /\ Out.text = <<"a", "a">> \o Ellipsis

\* C18: getPreviewText(s, 0) is the empty string.
C18_PreviewOfZero ==
    (Done /\ Out.of = "getPreviewText" /\ arg[1].maxLength = 0) => Out.text = <<>>

\* What holds for maxLength 0: the empty string for a content that strips
\* to nothing, else the ellipsis alone.
C18_PreviewOfZeroIsEllipsis ==
    (Done /\ Out.of = "getPreviewText" /\ arg[1].maxLength = 0)
        => Out.text = (IF stripMarkdown(arg[1].content) = <<>> THEN <<>> ELSE Ellipsis)

\* C19: stripMarkdown(stripMarkdown(s)) equals stripMarkdown(s).
C19_StripIdempotent ==
    (Done /\ Out.of = "stripMarkdown") => Out.again = Out.text

\* ------------------------------------------- the pin filter of both views

\* Most clicks on the pin filter of one view.
MaxClicks == 4

\* The sidebar's click handler with the grid's two modes.
SidebarPinMode_TwoState(mode) == IF mode = "all" THEN "pinned" ELSE "all"

\* filterPinned after a click on the sidebar's pin filter.
SidebarPinMode(mode) ==
    IF mode = "all" THEN "pinned"
    ELSE IF mode = "pinned" THEN "unpinned"
    ELSE "all"

\* What the two views display with their pin filters as given.
Displayed(listing, d, modes) ==
    [grid |-> PathsOf(CurrentFilesOf(listing, d, modes.grid, NoTag)),
     sidebar |-> RenderNotesList(LoadNotes(listing, d), d, modes.sidebar, NoTag).items]

\* Both views are open on the same vault, each with its own filterPinned;
\* arg keeps, per view, the modes its clicks have set.
InitFilters ==
    /\ vault \in Listings(ReadNotes, TextOf)
    /\ \E pinned \in SeqsNoDup({P_a, P_c}, 2) :
           data = [DefaultData EXCEPT !.pinnedNotes = pinned]
    /\ filterPinned = [grid |-> "all", sidebar |-> "all"]
    /\ filterTag = NoTag
    /\ shown = Displayed(vault, data, filterPinned)
    /\ lastOp = NoOp
    /\ TimeIdle
    /\ DiskIdle
    /\ GridIdle
    /\ arg = <<[grid |-> <<>>, sidebar |-> <<>>]>>
    /\ res = None

\* A click on the grid's pin filter icon: the mode is switched and the
\* cards are rendered.
GridPinFilterClick ==
    /\ Len(arg[1].grid) < MaxClicks
    /\ filterPinned' = [filterPinned EXCEPT !.grid = GridPinMode(@)]
    /\ arg' = <<[arg[1] EXCEPT !.grid = Append(@, filterPinned'.grid)]>>
    /\ shown' = Displayed(vault, data, filterPinned')
    /\ UNCHANGED <<data, vault, filterTag, lastOp, timeVars, gridVars, res, diskVars>>

\* A click on the sidebar's pin filter icon: the mode advances and the list
\* is rendered.
SidebarPinFilterClick ==
    /\ Len(arg[1].sidebar) < MaxClicks
    /\ filterPinned' = [filterPinned EXCEPT !.sidebar = SidebarPinMode(@)]
    /\ arg' = <<[arg[1] EXCEPT !.sidebar = Append(@, filterPinned'.sidebar)]>>
    /\ shown' = Displayed(vault, data, filterPinned')
    /\ UNCHANGED <<data, vault, filterTag, lastOp, timeVars, gridVars, res, diskVars>>

NextFilters == GridPinFilterClick \/ SidebarPinFilterClick

SpecFilters == InitFilters /\ [][NextFilters]_vars

\* The mode of a view before its click i, the first click finding 'all'.
ModeBefore(trail, i) == IF i = 1 THEN "all" ELSE trail[i - 1]

\* C20: the grid's filterPinned is 'all' or 'pinned' in every state and each
\* click there switches between the two; each click in the sidebar takes
\* all to pinned, pinned to unpinned, unpinned to all, so that the mode
\* after three clicks is the mode before them.
C20_PinFilterModes ==
    LET g == arg[1].grid
        s == arg[1].sidebar
    IN  /\ filterPinned.grid \in {"all", "pinned"}
        /\ \A i \in DOMAIN g : g[i] \in {"all", "pinned"} /\ g[i] # ModeBefore(g, i)
        /\ \A i \in DOMAIN s :
               \/ ModeBefore(s, i) = "all" /\ s[i] = "pinned"
               \/ ModeBefore(s, i) = "pinned" /\ s[i] = "unpinned"
               \/ ModeBefore(s, i) = "unpinned" /\ s[i] = "all"
        /\ \A i \in DOMAIN s : i >= 3 => s[i] = ModeBefore(s, i - 2)

\* Two clicks in the grid and three in the sidebar: both are at 'all'
\* again, the sidebar by way of 'unpinned'.
C20_ThreeClicks ==
    /\ arg[1].grid = <<"pinned", "all">>
    /\ arg[1].sidebar = <<"pinned", "unpinned", "all">>
    /\ filterPinned = [grid |-> "all", sidebar |-> "all"]

\* ------------------------------------------------ the saves of the store

\* Most calls of saveData in flight at once, and most begun in a behaviour.
MaxSaving == 2
MaxSaves == 3

\* What loadPluginData would take from data.json: the defaults when there
\* is none.
Durable == IF disk = None THEN DefaultData ELSE disk[1]

\* savePluginData letting the rejection of saveData through.
savePluginData_NoCatch(rejected) == [raised |-> rejected, logged |-> FALSE]

\* savePluginData once saveData has settled: a rejection is caught and
\* logged.
savePluginData(rejected) == [raised |-> FALSE, logged |-> rejected]

\* A handler suspended at the await of savePluginData: the handler, its
\* path and the order handed to it, the data it found and the data it
\* handed to saveData, with the number of saves in flight when it began.
Suspended(name, path, handed, before, after) ==
    [op |-> name, path |-> path, handed |-> handed, before |-> before,
     content |-> after, behind |-> Len(saving)]

\* The handler begins: the mutation is in data and saveData is called.
BeginsSave(name, path, handed, after) ==
    /\ Len(saving) < MaxSaving
    /\ saveCalls < MaxSaves
    /\ saveCalls' = saveCalls + 1
    /\ data' = after
    /\ saving' = Append(saving, Suspended(name, path, handed, data, after))
    /\ res' = None

\* The rest of a handler once savePluginData has returned or thrown: what
\* it returns, whether an exception leaves it, and whether it renders.
\* togglePin returns from its try or, on an exception, isPinned from its
\* catch, and its caller renders; updateOrder catches, and handleDrop
\* renders; the color handler and the two reconcilers have no catch, and
\* handleFileRename raises settings-changed unless the save threw.
Resumed(h, save, d) ==
    IF h.op = "togglePin"
    THEN [ret |-> IF save.raised THEN isPinned(d, h.path)
                  ELSE ~isPinned(h.before, h.path),
          raised |-> FALSE, renders |-> TRUE]
    ELSE IF h.op = "updateOrder"
    THEN [ret |-> FALSE, raised |-> FALSE, renders |-> TRUE]
    ELSE IF h.op = "rename"
    THEN [ret |-> FALSE, raised |-> save.raised, renders |-> ~save.raised]
    ELSE [ret |-> FALSE, raised |-> save.raised, renders |-> FALSE]

\* The default state on first load, no data.json; the vault holds some of
\* the notes and the grid has rendered them.
InitSaves ==
    /\ data = DefaultData
    /\ \E paths \in SUBSET ComingNotes : vault = ListingOf(paths \cup {P_c})
    /\ filterPinned = "all"
    /\ filterTag = NoTag
    /\ shown = Rendered(vault, data)
    /\ lastOp = NoOp
    /\ TimeIdle
    /\ GridIdle
    /\ PureIdle
    /\ DiskIdle

SavesUnchanged == UNCHANGED <<viewVars, lastOp, timeVars, gridVars, arg, disk>>

\* A click on the pin button of a displayed card: togglePin up to its await.
PinClickBegins(p) ==
    /\ p \in Range(ShownPaths)
    /\ BeginsSave("togglePin", p, <<>>, TogglePinData(data, p))
    /\ UNCHANGED <<vault, shown>>
    /\ SavesUnchanged

\* A click on a color circle: the card is painted, the entry set or
\* deleted, and savePluginData awaited.
ColorClickBegins(p, color) ==
    /\ p \in Range(ShownPaths)
    /\ BeginsSave("color", p, <<>>,
                  [data EXCEPT !.noteColors =
                      IF color = "clear" THEN DeleteColor(@, p) ELSE SetColor(@, p, color)])
    /\ UNCHANGED <<vault, shown>>
    /\ SavesUnchanged

\* A drop of one displayed card onto another: updateOrder up to its await.
DropBegins(dragged, target) ==
    /\ dragged # target
    /\ DropReorders(ShownPaths, shown[dragged].attr, shown[target].attr)
    /\ LET newOrder == DropOrder(ShownPaths, shown[dragged].attr, shown[target].attr)
       IN  BeginsSave("updateOrder", shown[dragged].attr, newOrder,
                      UpdateOrderData(data, newOrder))
    /\ UNCHANGED <<vault, shown>>
    /\ SavesUnchanged

\* The vault renames a note: handleFileRename up to its await, or to its
\* end when it changed nothing.
RenameBegins(oldPath, newPath) ==
    /\ oldPath \in NotePaths
    /\ newPath \notin NotePaths
    /\ vault' = ListingOf((NotePaths \ {oldPath}) \cup {newPath})
    /\ shown' = [i \in DOMAIN shown |->
                    IF shown[i].path = oldPath THEN [shown[i] EXCEPT !.path = newPath]
                    ELSE shown[i]]
    /\ IF DataChanged(data, oldPath)
       THEN BeginsSave("rename", oldPath, <<>>, RenameData(data, oldPath, newPath))
       ELSE res' = None /\ UNCHANGED <<data, saving, saveCalls>>
    /\ SavesUnchanged

\* The vault deletes a note: handleFileDelete up to its await, or to its
\* end when it changed nothing.
DeleteBegins(p) ==
    /\ p \in NotePaths
    /\ vault' = ListingOf(NotePaths \ {p})
    /\ IF DataChanged(data, p)
       THEN BeginsSave("delete", p, <<>>, DeleteData(data, p))
       ELSE res' = None /\ UNCHANGED <<data, saving, saveCalls>>
    /\ UNCHANGED shown
    /\ SavesUnchanged

\* The oldest saveData in flight settles, written or rejected, and its
\* handler runs to its end.
SaveSettles(rejected) ==
    /\ saving # <<>>
    /\ LET h == Head(saving)
           r == Resumed(h, savePluginData(rejected), data)
       IN  /\ saving' = Tail(saving)
           /\ disk' = IF rejected THEN disk ELSE <<h.content>>
           /\ shown' = IF r.renders THEN Rendered(vault, data) ELSE shown
           /\ res' = <<[op |-> h.op, path |-> h.path, handed |-> h.handed,
                        before |-> h.before,
                        after |-> h.content, behind |-> h.behind, rejected |-> rejected,
                        ret |-> r.ret, raised |-> r.raised, renders |-> r.renders]>>
    /\ UNCHANGED <<data, vault, viewVars, lastOp, timeVars, gridVars, arg, saveCalls>>

NextSaves ==
    \/ \E p \in Range(StoreNotes) : PinClickBegins(p)
    \/ \E p \in ComingNotes, color \in Colors \cup {"clear"} : ColorClickBegins(p, color)
    \/ \E dragged, target \in DOMAIN shown : DropBegins(dragged, target)
    \/ \E oldPath, newPath \in ComingNotes : RenameBegins(oldPath, newPath)
    \/ \E p \in ComingNotes : DeleteBegins(p)
    \/ \E rejected \in BOOLEAN : SaveSettles(rejected)

SpecSaves == InitSaves /\ [][NextSaves]_vars

\* A handler whose save was rejected has just run to its end.
SaveRejected == Done /\ Out.rejected

\* The mutation a handler made before its await: one entry more or less
\* in pinnedNotes, the order handed over in noteOrder.
MutationApplied(h) ==
    /\ h.op = "togglePin" => Len(h.after.pinnedNotes) # Len(h.before.pinnedNotes)
    /\ h.op = "updateOrder" => h.after.noteOrder = h.handed

C24_SavedBetweenMutations ==
    /\ Len(saving) <= 1
    /\ saving = <<>> => Durable = data

\* Every mutation of data hands the mutated data to saveData in the same
\* step, whatever is in flight then.
C24_SaveBegunWithMutation ==
    [][data' # data =>
           /\ Len(saving') = Len(saving) + 1
           /\ saving'[Len(saving')].content = data']_vars

\* A second mutation while the save of the first is in flight.
C24_MutationDuringSave ==
    /\ Len(saving) = 2
    /\ saving[1].op = "togglePin" /\ saving[2].op = "togglePin"
    /\ saving[2].before = saving[1].content

\* ------------------------------------------------ the grid when runs end

\* No call of renderCards is in progress.
Quiescent == \A s \in Slots : runs[s].pc = "idle"

\* The number of cards in the grid that are of path p.
CardsOf(p) == Cardinality({i \in DOMAIN AllCards(grid) : AllCards(grid)[i].path = p})

\* The output of the call of renderCards begun last: no data, filter or
\* listing has changed since it began.
LastOutput == PathsOf(CurrentFilesOf(vault, data, filterPinned, filterTag))

\* C22: once every call of renderCards begun has ended, the grid holds one
\* card for each note of the output of the call begun last and no other
\* card, also when calls overlapped.
C22_OneCardPerNote ==
    Quiescent =>
        \A p \in PathsRange(vault) : CardsOf(p) = (IF p \in Range(LastOutput) THEN 1 ELSE 0)

\* The same, for the states in which all children of the grid are of one
\* call.
C22_OneCardPerNoteOfOneRun ==
    (Quiescent /\ \A i, j \in DOMAIN grid : grid[i].slot = grid[j].slot) => C22_OneCardPerNote

\* Two calls that overlapped have ended.
C22_OverlappedRunsEnded ==
    /\ Quiescent
    /\ \E i, j \in DOMAIN grid : grid[i].slot # grid[j].slot

\* --------------------------------- notes renamed and modified during runs

\* A content with four tags, the fourth being Tag_t.
Text_four == <<"#", "a", " ", "#", "b", " ", "#", "c", " ", "#", "t">>

\* Tags a card shows at most.
MaxCardTags == 3

\* The vault's entry of a path.
FileAt(p) == CHOOSE f \in Range(vault) : f.path = p

\* The card createCard returns for the note of path p: its element, its
\* data-path attribute and the path of its TFile, its state as pinned and
\* colored, and the tags it shows, all of the data and of the text read
\* then.
CardOf(slot, k, p, d) ==
    [el |-> <<slot, k>>, attr |-> p, path |-> p,
     pinned |-> isPinned(d, p), colored |-> HasColor(d, p),
     tags |-> Slice0(extractTags(FileAt(p).content), MaxCardTags)]

\* A path in place of another, wherever a TFile of the note is held.
Moved(p, oldPath, newPath) == IF p = oldPath THEN newPath ELSE p

MovedFiles(files, oldPath, newPath) ==
    [i \in DOMAIN files |-> [files[i] EXCEPT !.path = Moved(@, oldPath, newPath)]]

\* The view is open on two notes and has not rendered yet; the newer one
\* may be pinned, colored and ordered, and a tag filter may be set.
InitLive ==
    /\ \E texts \in [1..2 -> {Text_tagged, Text_four}] :
           vault = <<File(P_a, 2, texts[1]), File(P_b, 1, texts[2])>>
    /\ \E kept \in BOOLEAN :
           data = IF kept
                  THEN [DefaultData EXCEPT !.pinnedNotes = <<P_a>>, !.noteOrder = <<P_a>>,
                                           !.noteColors = SetColor(<<>>, P_a, "var(--pastel-pink)")]
                  ELSE DefaultData
    /\ filterPinned = "all"
    /\ filterTag \in {NoTag, Tag_t}
    /\ StoreIdle
    /\ TimeIdle
    /\ GridIdle
    /\ PureIdle
    /\ DiskIdle

\* A createCard of the run in slot returns.
LiveCardCreated(slot) ==
    /\ runs[slot].pc = "creating"
    /\ Becomes(slot, AfterCardOf(World(slot), slot,
                   CardOf(slot, runs[slot].k, runs[slot].queue[1].path, data)))
    /\ UNCHANGED <<data, vault, viewVars, storeVars, timeVars, draggedCard, starts, pureVars,
                   diskVars>>

\* The vault renames a note: its TFile carries the new path wherever it is
\* held, and handleFileRename runs up to its await.  The re-run it raises
\* after the save is a call of renderCards like any other.
NoteRenamed(oldPath, newPath) ==
    /\ oldPath \in NotePaths
    /\ newPath \notin NotePaths
    /\ vault' = MovedFiles(vault, oldPath, newPath)
    /\ data' = RenameData(data, oldPath, newPath)
    /\ runs' = [s \in Slots |->
                   [runs[s] EXCEPT !.files = MovedFiles(@, oldPath, newPath),
                                   !.queue = MovedFiles(@, oldPath, newPath)]]
    /\ grid' = [i \in DOMAIN grid |->
                   [grid[i] EXCEPT !.cards = MovedFiles(@, oldPath, newPath)]]
    /\ currentFiles' = [i \in DOMAIN currentFiles |-> Moved(currentFiles[i], oldPath, newPath)]
    /\ UNCHANGED <<viewVars, storeVars, timeVars, draggedCard, starts, pureVars, diskVars>>

NextRenames ==
    \/ RefreshRequested
    \/ \E slot \in Slots : ReadReturns(slot)
    \/ \E slot \in Slots : LiveCardCreated(slot)
    \/ \E oldPath, newPath \in {P_a, P_d} : NoteRenamed(oldPath, newPath)

SpecRenames == InitLive /\ [][NextRenames]_vars

\* C23: a rename is in colors, pinnedNotes and noteOrder at once, and a run
\* of renderCards that a rename overlaps renders the renamed note as the
\* pinned and colored note it is and does not omit it: where a note is
\* pinned, colored and ordered, once a run is past its filters currentFiles
\* is the sequence the notes and the data give, and every card is pinned
\* and colored as its note is.
C23_RenameAtomic ==
    (grid # <<>> /\ data.pinnedNotes # <<>>) =>
        /\ currentFiles = LastOutput
        /\ \A c \in Range(AllCards(grid)) :
               c.pinned = isPinned(data, c.path) /\ c.colored = HasColor(data, c.path)

\* The same, for the view without a tag filter.
C23_RenameAtomicOfNoTagFilter == filterTag = NoTag => C23_RenameAtomic

\* A pinned note was renamed while a run was at its reads, and the run has
\* rendered it pinned.
C23_RenamedDuringRun ==
    /\ isPinned(data, P_d)
    /\ \E c \in Range(AllCards(grid)) : c.attr = P_d /\ c.pinned
    /\ Quiescent

\* The last-modified time a modification leaves.
ModifiedMtime == 3

\* The vault modifies a note: its text is another, and its TFile carries
\* the new time wherever it is held.
NoteModified(p, text) ==
    /\ p \in NotePaths
    /\ FileAt(p).content # text
    /\ FileAt(p).mtime # ModifiedMtime
    /\ vault' = [i \in DOMAIN vault |->
                    IF vault[i].path = p THEN File(p, ModifiedMtime, text) ELSE vault[i]]
    /\ runs' = [s \in Slots |->
                   [runs[s] EXCEPT !.files =
                       [i \in DOMAIN @ |->
                           IF @[i].path = p THEN File(p, ModifiedMtime, text) ELSE @[i]]]]
    /\ UNCHANGED <<data, viewVars, storeVars, timeVars, grid, draggedCard, currentFiles, starts,
                   pureVars, diskVars>>

NextModifies ==
    \/ RefreshRequested
    \/ \E slot \in Slots : ReadReturns(slot)
    \/ \E slot \in Slots : LiveCardCreated(slot)
    \/ \E p \in {P_a, P_b}, text \in {Text_plain, Text_tagged} : NoteModified(p, text)

SpecModifies == InitLive /\ [][NextModifies]_vars

\* C29: with a tag filter active, every card a run renders shows tags that
\* include the active tag, also when a note is modified while the run is in
\* progress.
C29_ActiveTagOnCard ==
    filterTag # NoTag => \A c \in Range(AllCards(grid)) : filterTag \in Range(c.tags)

\* No note has been modified and none has more tags than a card shows.
Unmodified ==
    \A f \in Range(vault) :
        f.mtime # ModifiedMtime /\ Len(extractTags(f.content)) <= MaxCardTags

\* The same, for notes not modified and of no more tags than a card shows.
C29_ActiveTagOnCardOfUnmodified == Unmodified => C29_ActiveTagOnCard

\* A card of a note that lost the active tag between the two reads.
C29_ModifiedBetweenReads ==
    /\ filterTag = Tag_t
    /\ \E c \in Range(AllCards(grid)) : c.tags = <<>> /\ FileAt(c.path).content = Text_plain
\* ------------------------------------------- stale and repeated paths

\* C25: in every state where no handler is mid-execution, every path in
\* pinnedNotes, in noteColors and in noteOrder is the path of a note of the
\* vault, also after a pin toggle, a color choice or a drop on a card that
\* is still displayed for a deleted note.
C25_NoStalePathPersists ==
    /\ DOMAIN data.noteColors \subseteq NotePaths
    /\ Range(data.pinnedNotes) \subseteq NotePaths
    /\ Range(data.noteOrder) \subseteq NotePaths

\* The same, while every displayed card is the card of a note of the vault
\* and no path is held twice.
C25_NoStalePathOfLiveCards ==
    [][(NoStalePath(data) /\ Range(ShownPaths) \subseteq NotePaths)
           => C25_NoStalePathPersists']_vars

\* A card displayed for a deleted note was pinned.
C25_PinnedAfterDelete ==
    /\ lastOp.op = "togglePin"
    /\ lastOp.path \notin NotePaths
    /\ isPinned(data, lastOp.path)

\* C26: pinnedNotes never holds the same path twice, in any state reached
\* from the default state by toggles, renames, deletes and creates, so that
\* after togglePin(p) has returned false, isPinned(p) is false.
C26_PinnedOnce ==
    /\ \A i, j \in DOMAIN data.pinnedNotes : data.pinnedNotes[i] = data.pinnedNotes[j] => i = j
    /\ (lastOp.op = "togglePin" /\ ~lastOp.ret) => ~isPinned(data, lastOp.path)

\* The same, for toggles of the notes of the vault only: where no pinned
\* path is stale, the next step pins no path twice.
C26_PinnedOnceOfLiveCards ==
    [][(C26_PinnedOnce /\ C25_NoStalePathPersists) => C26_PinnedOnce']_vars

\* A path is pinned twice after a rename onto a stale pinned path.
C26_RenamedOntoPinned ==
    /\ lastOp.op = "rename"
    /\ \E i, j \in DOMAIN data.pinnedNotes : i # j /\ data.pinnedNotes[i] = data.pinnedNotes[j]
\* --------------------------------------- the events a refresh follows

EventKinds == {"modify", "create", "delete", "rename"}

\* A step is a vault event of the kind.
VaultEvent(kind) ==
    \/ kind = "modify" /\ \E p \in {P_a, P_b, P_c} : VaultModify(p)
    \/ kind = "create" /\ VaultCreate(P_c)
    \/ kind = "delete" /\ VaultDelete(P_c)
    \/ kind = "rename" /\ \E oldPath, newPath \in ComingNotes : VaultRename(oldPath, newPath)

\* After the step the view has one refresh pending, set by the step: the
\* one its field names, due the quiet interval from now.
Rescheduled(v) ==
    \E t \in timers'[v] :
        /\ timers'[v] = {t}
        /\ refreshTimeoutId'[v] = t.id
        /\ t.due = now + DEBOUNCE_REFRESH_MS

\* C27: in the grid and in the sidebar each of create, modify, delete and
\* rename cancels the pending refresh and schedules a new one, the rename of
\* a note with no pin, color or order entry included.
C27_EveryEventSchedules ==
    [][\A kind \in EventKinds, v \in Views : VaultEvent(kind) => Rescheduled(v)]_vars

\* The same, for the events a view listens to.
C27_ListenedEventSchedules ==
    [][\A kind \in EventKinds, v \in Views :
           (VaultEvent(kind) /\ Listens(v, kind)) => Rescheduled(v)]_vars

\* A rename has left the grid with no refresh pending and the sidebar with
\* one.
C27_RenameUnheardInGrid ==
    /\ timers["grid"] = {}
    /\ timers["sidebar"] # {}
    /\ hist["grid"].n = 0
    /\ P_b \in NotePaths

C30_DisplayedIsHanded ==
    lastOp.op = "updateOrder" => ShownPaths = data.noteOrder

\* The same, for a drop within one section while the cards displayed are
\* those of the notes of the vault.
C30_DisplayedIsHandedOfOneSection ==
    [][(/\ lastOp'.op = "updateOrder"
        /\ shown = Rendered(vault, data)
        /\ isPinned(data, lastOp'.path) = isPinned(data, lastOp'.to))
           => ShownPaths' = data'.noteOrder]_vars

\* A pinned card was dropped on an unpinned one that follows it, and is
\* displayed before it still.
C30_DroppedAcrossSections ==
    /\ lastOp.op = "updateOrder"
    /\ isPinned(data, lastOp.path) /\ ~isPinned(data, lastOp.to)
    /\ IndexOf(data.noteOrder, lastOp.path) > IndexOf(data.noteOrder, lastOp.to)
    /\ IndexOf(ShownPaths, lastOp.path) < IndexOf(ShownPaths, lastOp.to)
\* ------------------------------------------------------ the drag session

\* C31: dragstart records the source card; dragend leaves no card recorded;
\* a drag that ends without a drop leaves data as it is, with no save and no
\* call of renderCards; and a drop while no card is recorded changes nothing.
C31_DragSession ==
    [][/\ \A card \in CardsOfRuns :
              HandleDragStart(card) =>
                  /\ draggedCard' # None
                  /\ draggedCard'[1].el = card.el
                  /\ draggedCard'[1].path = card.path
                  /\ UNCHANGED <<data, runs, starts, grid, currentFiles>>
       /\ HandleDragEnd =>
              /\ draggedCard' = None
              /\ UNCHANGED <<data, runs, starts, grid, currentFiles>>
       /\ \A target \in CardsOfRuns :
              (HandleDrop(target) /\ draggedCard = None) =>
                  /\ UNCHANGED <<data, gridVars>>
                  /\ lastOp'.saves = 0 /\ ~lastOp'.ret]_vars

\* A drop came while no card was recorded, after the data had an order from
\* an earlier drag.
C31_DropWhileIdle ==
    /\ lastOp.op = "drop"
    /\ lastOp.path = <<>>
    /\ draggedCard = None
    /\ data.noteOrder # <<>>
\* ------------------------------------------------------ the source folder

SourceNotes == <<P_Ax, P_A2x, P_ABy, P_a, P_f>>

\* Notes in folders whose names begin alike, and a source folder or none.
InitSource ==
    /\ vault \in Listings(SourceNotes, TextOf)
    /\ \E source \in {Root, F_A, F_AB} : data = [DefaultData EXCEPT !.sourceFolder = source]
    /\ filterPinned = "all"
    /\ filterTag = NoTag
    /\ StoreIdle
    /\ TimeIdle
    /\ DiskIdle
    /\ GridIdle
    /\ PureIdle

SpecSource == InitSource /\ [][NextPipeline]_vars

\* C32: with a source folder F other than the root, every note the grid
\* displays lies inside F: not a note of a sibling folder, nor a file whose
\* path only begins with the characters of F; with "/" the step removes no
\* note.
C32_InsideSourceFolder ==
    Done =>
        IF data.sourceFolder = Root
        THEN SourceFolderFilter(ExtensionFilter(vault, data), data) = ExtensionFilter(vault, data)
        ELSE \A p \in Range(Out.cards) : LiesIn(p, data.sourceFolder)

\* The same, with the folder's characters for the folder: every displayed
\* path begins with F, and the root removes no note.
C32_BeginsWithSourceFolder ==
    Done =>
        IF data.sourceFolder = Root
        THEN SourceFolderFilter(ExtensionFilter(vault, data), data) = ExtensionFilter(vault, data)
        ELSE /\ \A p \in Range(Out.cards) : StartsWith(p, data.sourceFolder)
             /\ P_a \notin Range(Out.cards)

\* With the source folder "A" the grid displays the note of folder "A2".
C32_SiblingDisplayed ==
    /\ Done
    /\ data.sourceFolder = F_A
    /\ P_Ax \in Range(Out.cards)
    /\ P_A2x \in Range(Out.cards)
\* ----------------------------------------------------------- the pin filter

PinModes == {"all", "pinned", "unpinned"}

\* The paths of the cards a run is about to create.
QueuedPaths(slot) == {runs'[slot].queue[i].path : i \in DOMAIN runs'[slot].queue}

\* C33: in a run of renderCards, with the filter mode "pinned" every card
\* rendered is of a note whose path is in pinnedNotes, with "unpinned" none
\* is, and with "all" the pin filter removes no note; pinnedNotes is read as
\* it is when the filter step executes.  The step is the return of the last
\* read; the cards created afterwards are those it queued (a card created
\* for a section that a later run has taken out of the grid is no card of
\* the grid).
C33_PinFilter ==
    [][/\ \A slot \in Slots :
              (ReadReturns(slot) /\ runs'[slot].pc # "reading") =>
                  LET files == runs[slot].files
                      pinnedNow == Range(data.pinnedNotes)
                  IN  /\ filterPinned = "pinned" => QueuedPaths(slot) \subseteq pinnedNow
                      /\ filterPinned = "unpinned" => QueuedPaths(slot) \cap pinnedNow = {}
                      /\ filterPinned = "all" =>
                             QueuedPaths(slot) = PathsRange(HardLimit(files, data))
                      /\ \A mode \in PinModes :
                             LET kept == PathsRange(PinnedFilter(files, data, mode))
                             IN  /\ mode = "pinned" => kept = PathsRange(files) \cap pinnedNow
                                 /\ mode = "unpinned" => kept = PathsRange(files) \ pinnedNow
                                 /\ mode = "all" => kept = PathsRange(files)
       /\ \A slot \in Slots :
              CardCreated(slot) =>
                  /\ Len(AllCards(grid')) <= Len(AllCards(grid)) + 1
                  /\ PathsRange(AllCards(grid')) \subseteq
                         PathsRange(AllCards(grid)) \cup {runs[slot].queue[1].path}]_vars

\* Under the mode "pinned" the grid holds a card of a note that was pinned
\* when its run filtered and has been unpinned since.
C33_UnpinnedSinceFiltered ==
    /\ filterPinned = "pinned"
    /\ \E card \in Range(AllCards(grid)) : ~isPinned(data, card.path)
    /\ data.pinnedNotes # <<>>
\* -------------------------------------------- what may follow the '#'

\* Longest text drawn for the inline tags.
MaxInlineLen == 4

\* The characters drawn: the '#', a letter, a digit, an underscore, a space.
InlineChars == {"#", "a", "1", "_", " "}

\* A text without front matter.
InitInline ==
    /\ data = DefaultData
    /\ vault = <<>>
    /\ filterPinned = "all"
    /\ filterTag = NoTag
    /\ StoreIdle
    /\ TimeIdle
    /\ DiskIdle
    /\ GridIdle
    /\ arg \in {<<[text |-> s, form |-> "none", values |-> <<>>]>> :
                    s \in TextsUpTo(InlineChars, MaxInlineLen)}
    /\ res = None

SpecInline == InitInline /\ [][NextTags]_vars

\* [A-Za-z] among the characters of a tag.
IsLetter(c) == IsTagChar(c) /\ ~IsDigit(c) /\ c \notin {"_", "-"}

\* A tag of the result begins at position i of s, at the start of the text
\* or behind white space.
BeginsAt(s, t, i) ==
    /\ i + Len(t) - 1 <= Len(s)
    /\ SubSeq(s, i, i + Len(t) - 1) = t
    /\ i = 1 \/ IsSpace(s[i - 1])

\* C34: extractTags returns an inline tag only when the character right
\* behind the '#' is a letter: a '#' followed by a digit, an underscore or a
\* hyphen yields no tag, and a '#' behind a character that is no white
\* space yields none.
C34_LetterAfterHash ==
    Done =>
        \A k \in DOMAIN Out :
            /\ Len(Out[k]) >= 2 /\ Out[k][1] = "#"
            /\ IsLetter(Out[k][2])
            /\ \E i \in DOMAIN arg[1].text : BeginsAt(arg[1].text, Out[k], i)

\* The same, with any character of a tag behind the '#'.
C34_TagCharAfterHash ==
    Done =>
        \A k \in DOMAIN Out :
            /\ Len(Out[k]) >= 2 /\ Out[k][1] = "#"
            /\ IsTagChar(Out[k][2])
            /\ \E i \in DOMAIN arg[1].text : BeginsAt(arg[1].text, Out[k], i)

\* "#1" has given the tag '#1', and "a#a" none.
C34_DigitAfterHash ==
    /\ Done
    /\ \/ arg[1].text = <<"#", "1">> /\ Out = <<<<"#", "1">>>>
       \/ arg[1].text = <<"a", "#", "a">> /\ Out = <<>>

\* --------------------------------------------- the order a drop persists

\* Three notes, some pinned, some with a position, under a limit, a pin
\* filter and a tag filter; the grid has rendered them.
InitOrder ==
    /\ vault \in Listings(OrderNotes, TextOf)
    /\ \E pinned \in SUBSET Range(OrderNotes), order \in SeqsNoDup(Range(OrderNotes), MaxOrderLen),
          n \in {MaxNotesBound, DefaultMaxNotes} :
          data = [DefaultData EXCEPT !.pinnedNotes = InOrderOf(OrderNotes, pinned),
                                     !.noteOrder = order,
                                     !.maxNotes = n]
    /\ filterPinned \in {"all", "pinned"}
    /\ filterTag \in {NoTag, Tag_t}
    /\ shown = Rendered(vault, data)
    /\ lastOp = NoOp
    /\ TimeIdle
    /\ DiskIdle
    /\ GridIdle
    /\ PureIdle

NextOrder == \E dragged, target \in DOMAIN shown : DropOnCard(dragged, target)

SpecOrder == InitOrder /\ [][NextOrder]_vars

\* C35: after a successful drop noteOrder is the reordered sequence of the
\* paths displayed: every displayed path has a position in it, those that
\* had none before too, and a path that had a position and is not in the
\* most recent output of the pipeline (hidden by the pin or tag filter, or
\* cut by the limit) has none any more.
C35_OrderOfDisplayed ==
    [][lastOp'.op = "updateOrder" =>
           /\ Len(data'.noteOrder) = Len(ShownPaths)
           /\ Range(data'.noteOrder) = Range(ShownPaths)
           /\ \A p \in Range(data.noteOrder) \ Range(ShownPaths) :
                  p \notin Range(data'.noteOrder)
           /\ IndexOf(data'.noteOrder, lastOp'.path) = IndexOf(ShownPaths, lastOp'.to)
           /\ Without(data'.noteOrder, lastOp'.path) = Without(ShownPaths, lastOp'.path)]_vars

\* After a drop a note that the pin filter hides has no position, and
\* the two displayed have theirs.
C35_HiddenPathDropped ==
    /\ lastOp.op = "updateOrder"
    /\ filterPinned = "pinned"
    /\ Len(data.noteOrder) = 2
    /\ \E f \in Range(vault) : ~isPinned(data, f.path) /\ f.path \notin Range(data.noteOrder)

\* ------------------------------------------------- whom the limit keeps

\* The notes of the batch that satisfy the pin and tag filters, newest first.
MatchesOf(batch) == SelectSeq(batch, Matches)

\* C36: the hard limit keeps the maxNotes most recently modified of the
\* notes that pass the filters, whatever is pinned or positioned: when more
\* than maxNotes notes of the batch match, the displayed notes are the
\* first maxNotes matches of the batch, none of them older than a match
\* left out.
C36_NewestKept ==
    (Done /\ Len(MatchesOf(Out.batch)) > data.maxNotes) =>
        LET matches == MatchesOf(Out.batch)
            kept == {matches[i].path : i \in 1..data.maxNotes}
        IN  /\ Range(Out.cards) = kept
            /\ Len(Out.cards) = data.maxNotes
            /\ \A f \in Range(matches) :
                   f.path \notin kept => \A p \in kept : f.mtime <= MtimeOf(p)

\* A pinned note that matches is left out for a newer note that is not
\* pinned.
C36_OlderPinnedLeftOut ==
    /\ Done
    /\ filterPinned = "all"
    /\ \E f \in Range(MatchesOf(Out.batch)) :
           /\ isPinned(data, f.path)
           /\ f.path \notin Range(Out.cards)
           /\ \E p \in Range(Out.cards) : ~isPinned(data, p) /\ MtimeOf(p) > f.mtime

\* ------------------------------------------------------ closing a view

\* onClose: the content element is emptied.
OnClose(v) ==
    /\ v \notin closed
    /\ closed' = closed \cup {v}
    /\ UNCHANGED <<data, vault, now, timers, refreshTimeoutId, hist, viewVars, storeVars, pureVars,
                   gridVars, diskVars>>

NextClose ==
    \/ NextDebounce
    \/ \E v \in Views : OnClose(v)

SpecClose == InitDebounce /\ [][NextClose]_vars

\* C37: closing a view cancels its pending refresh: no refresh timer runs
\* the pipeline of a view after its onClose.
C37_NoRunAfterClose ==
    [][\A v \in Views : TimerFires(v) => v \notin closed]_vars

\* What holds: a closed view has no refresh scheduled anew.
C37_NoneScheduledAfterClose ==
    [][\A v \in closed : timers'[v] \subseteq timers[v]]_vars

\* A view has been closed with a refresh pending, which has run since.
C37_RanAfterClose ==
    \E v \in closed : hist[v].timed >= 1 /\ timers[v] = {} /\ hist[v].n = 1

\* --------------------------------- settings tab: the remove controls

\* Most entries of the list of excluded folders drawn.
MaxListed == 3

Lists == {"excludedFolders", "allowedExtensions"}

ListOf(d, list) == IF list = "excludedFolders" THEN d.excludedFolders ELSE d.allowedExtensions

WithList(d, list, entries) ==
    IF list = "excludedFolders" THEN [d EXCEPT !.excludedFolders = entries]
    ELSE [d EXCEPT !.allowedExtensions = entries]

\* renderExcludedList / renderExtensionsList: one remove control per entry,
\* whose handler holds the index the entry has at the time.
ControlsOf(d, list) ==
    [i \in DOMAIN ListOf(d, list) |-> [list |-> list, text |-> ListOf(d, list)[i], index |-> i - 1]]

\* The controls of a list in place of those it had.
Rerendered(controls, d, list) ==
    SelectSeq(controls, LAMBDA c : c.list # list) \o ControlsOf(d, list)

\* The settings tab is displayed on some excluded folders and extensions.
InitRemove ==
    /\ \E excluded \in SeqsNoDup({F_A, F_A2, F_AB}, MaxListed),
          exts \in {<<Ext_md>>, <<Ext_md, Ext_txt>>} :
          data = [DefaultData EXCEPT !.excludedFolders = excluded, !.allowedExtensions = exts]
    /\ vault = <<>>
    /\ filterPinned = "all"
    /\ filterTag = NoTag
    /\ shown = ControlsOf(data, "excludedFolders") \o ControlsOf(data, "allowedExtensions")
    /\ lastOp = NoOp
    /\ TimeIdle
    /\ DiskIdle
    /\ GridIdle
    /\ PureIdle

\* A click on the remove control c: splice(index, 1) and the call of
\* savePluginData, up to its await.
RemoveClick(c) ==
    /\ c \in Range(shown)
    /\ Len(saving) < MaxSaving
    /\ saveCalls < MaxSaves
    /\ data' = WithList(data, c.list, SpliceOut(ListOf(data, c.list), c.index))
    /\ saving' = Append(saving, [op |-> "remove", list |-> c.list, content |-> data'])
    /\ saveCalls' = saveCalls + 1
    /\ lastOp' = Op("remove", c.text, <<>>, FALSE, FALSE, 1)
    /\ UNCHANGED <<vault, shown, viewVars, timeVars, gridVars, pureVars, disk>>

\* The save of the oldest click settles: settings-changed is raised and the
\* list is rendered anew, of the entries it has then.
RemoveSaved(rejected) ==
    /\ saving # <<>>
    /\ saving' = Tail(saving)
    /\ disk' = IF rejected THEN disk ELSE <<Head(saving).content>>
    /\ shown' = Rerendered(shown, data, Head(saving).list)
    /\ lastOp' = Op("rendered", <<>>, <<>>, FALSE, FALSE, 0)
    /\ UNCHANGED <<data, vault, viewVars, timeVars, gridVars, pureVars, saveCalls>>

NextRemove ==
    \/ \E c \in Range(shown) : RemoveClick(c)
    \/ \E rejected \in BOOLEAN : RemoveSaved(rejected)

SpecRemove == InitRemove /\ [][NextRemove]_vars

\* The click removes the entry of its control and nothing else.
RemovesOwn(c) ==
    /\ ListOf(data', c.list) = Without(ListOf(data, c.list), c.text)
    /\ \A list \in Lists \ {c.list} : ListOf(data', list) = ListOf(data, list)

\* C38: each activation of the remove control shown for an excluded folder
\* F, or for an allowed extension E, removes F (E) and no other entry, also
\* when the control is activated again before the save of the first
\* activation has completed and the list has been rendered anew.
C38_RemovesOwnEntry ==
    [][\A c \in Range(shown) : RemoveClick(c) => RemovesOwn(c)]_vars

\* The same, for the controls of a list rendered of the entries it has.
C38_RemovesOwnEntryOfFreshList ==
    [][\A c \in Range(shown) :
           (RemoveClick(c) /\ c \in Range(ControlsOf(data, c.list))) => RemovesOwn(c)]_vars

\* Two clicks are in flight, the controls are those of three folders, and
\* one folder is left.
C38_TwoClicksInFlight ==
    /\ Len(saving) = 2
    /\ Len(SelectSeq(shown, LAMBDA c : c.list = "excludedFolders")) = 3
    /\ Len(data.excludedFolders) = 1

\* --------------------------------------------- the two views, side by side

\* Both views are about to run on the same notes and the same data, with
\* the pin filter 'all', no tag filter and no search.
InitViews ==
    /\ InitOrdering \/ InitFolders
    /\ StoreIdle
    /\ TimeIdle
    /\ DiskIdle
    /\ GridIdle
    /\ PureIdle

\* The grid renders: arg keeps the paths of its cards, in order.
GridShows ==
    /\ arg = None
    /\ arg' = <<PathsOf(CurrentFilesOf(vault, data, "all", NoTag))>>
    /\ UNCHANGED <<data, vault, viewVars, storeVars, timeVars, gridVars, res, diskVars>>

\* The sidebar refreshes: res keeps the paths of its items, in order.
SidebarShows ==
    /\ res = None
    /\ res' = <<SidebarRefresh(vault, data, "all", NoTag).items>>
    /\ UNCHANGED <<data, vault, viewVars, storeVars, timeVars, gridVars, arg, diskVars>>

NextViews == GridShows \/ SidebarShows

SpecViews == InitViews /\ [][NextViews]_vars

BothShown == arg # None /\ res # None

\* C39: for the same data and the same listing, with the pin filter 'all',
\* no tag filter and an empty search, the sidebar lists the same notes in the
\* same order as the grid's pinned cards followed by its unpinned ones.
C39_SameNotesSameOrder == BothShown => res[1] = arg[1]

\* The grid's candidates and the sidebar's are the same notes, and the limit
\* cuts none of them.
SameCandidatesUncut ==
    /\ PathsRange(Candidates(vault, data)) = PathsRange(SidebarCandidates(vault, data))
    /\ Len(Candidates(vault, data)) <= data.maxNotes

\* The same, where both views gather the same candidates and the limit cuts
\* none.
C39_SameNotesSameOrderOfUncut == (BothShown /\ SameCandidatesUncut) => res[1] = arg[1]

\* With maxNotes = 1 the grid displays the newest note and the sidebar an
\* older, pinned one.
C39_PinnedInSidebarOnly ==
    /\ BothShown
    /\ data.maxNotes = 1
    /\ Len(arg[1]) = 1 /\ Len(res[1]) = 1
    /\ ~isPinned(data, arg[1][1])
    /\ isPinned(data, res[1][1])
    /\ MtimeOf(res[1][1]) < MtimeOf(arg[1][1])

=============================================================================
